---- MODULE Spec2Model ----
(***************************************************************************)
(* Model of the evidence batch worker (modules/bayesian_worker.py), its    *)
(* HTTP trigger (modules/bayesian_trigger.py), the Bayesian fusion engine  *)
(* (modules/bayesienappre.py) and the corroboration matcher                *)
(* (modules/corroboration.py) of rss-aggregator.                           *)
(*                                                                         *)
(* Probabilities are fixed-point integers in hundredths (0.75 is 75), the   *)
(* matcher's scores in ten-thousandths (0.65 is 6500).                     *)
(* The store is PostgreSQL at READ COMMITTED: a transaction's writes are   *)
(* kept apart from the committed tables until its commit.                  *)
(***************************************************************************)
EXTENDS Integers, Sequences, FiniteSets, TLC

\* ------------------------------------------------------------------ bounds
\* Most evidence rows ever inserted into bayes_evidence.
MaxRows == 2
\* Largest configured BAYES_BATCH_LIMIT.
MaxBatchLimit == 2
\* Largest candidate pool handed to find_corroborations.
MaxPool == 2
\* Largest top_n handed to find_corroborations.
MaxTopN == 2
\* Largest candidate pool handed to the prefilter on its own.
MaxBigPool == 6
\* Likelihoods passed to one call of the log-odds fusion.
MaxLikelihoods == 2
\* Rows in the queue when a single worker runs on its own.
MaxSeeded == 3

\* ------------------------------------------------------------------ domains
\* The two worker instances that may run against the same queue.
Workers == {"w1", "w2"}
\* (entity_type, entity_id) pairs the collaborators write evidence about.
Entities == {<<"source", 1>>, <<"theme", 1>>}
\* (value, confidence) of the n-th inserted row, cyclically; <<>> is SQL NULL.
\* The first three are the convergent evidences of the engine's self-test.
EvidenceTable ==
    << [value |-> <<70>>, confidence |-> <<80>>],
       [value |-> <<75>>, confidence |-> <<70>>],
       [value |-> <<80>>, confidence |-> <<85>>],
       [value |-> <<>>, confidence |-> <<>>] >>
\* How each worker's run_batch is started: w1 is the script run as __main__,
\* w2 is a thread of the trigger service.
Launcher == [w \in Workers |-> IF w = "w1" THEN "main" ELSE "thread"]

\* Articles the matcher is called on. id is <<>> (None) or <<n>>; date is <<>>
\* (absent or unparseable) or <<h>>, hours on a common clock; naive tells a
\* date that _to_datetime parsed without an offset.
Catalogue ==
    { [id |-> <<0>>, title |-> <<1, 0, 2>>, summary |-> <<3>>, source |-> "s1",
       date |-> <<24>>, naive |-> FALSE, themes |-> {"t1"}],
      [id |-> <<1>>, title |-> <<1, 0, 2>>, summary |-> <<3>>, source |-> "s1",
       date |-> <<24>>, naive |-> FALSE, themes |-> {"t1", "t2"}],
      [id |-> <<2>>, title |-> <<2, 0, 11>>, summary |-> <<>>, source |-> "s2",
       date |-> <<0>>, naive |-> TRUE, themes |-> {}],
      [id |-> <<>>, title |-> <<1, 2>>, summary |-> <<3>>, source |-> "",
       date |-> <<>>, naive |-> FALSE, themes |-> {"t2"}],
      [id |-> <<3>>, title |-> <<1, 0, 2>>, summary |-> <<3>>, source |-> "s2",
       date |-> <<120>>, naive |-> FALSE, themes |-> {"t1"}],
      [id |-> <<4>>, title |-> <<2>>, summary |-> <<>>, source |-> "s3",
       date |-> <<48>>, naive |-> FALSE, themes |-> {}] }
\* Pool items of the large pools: for the catalogue's first article one of the
\* same source, one within the time window and two that are neither.
BigPoolItems ==
    {c \in Catalogue : c.id \in {<<1>>, <<2>>, <<4>>, <<>>}}
\* Configured values of CORROBORATION_MAX_CANDIDATES: below the prefilter's
\* floor, at the floor, and the default.
MaxCandidatesValues == {1, 5, 25}
\* Thresholds a caller passes: the default 0.65 and a permissive 0.3.
Thresholds == {6500, 3000}
\* Cosines the embedding and the lexical stage may answer with; the cosine of
\* two embeddings may be negative.
SemValues == {-2000, 5000, 10000}
\* A threshold below every score, as the API passes it on from a request.
LooseThreshold == -10000
\* Request threads that share the module's engine.
Threads == {1, 2}
\* CORROBORATION_WINDOW_DAYS, by default.
window_days == 3

Range(s) == {s[i] : i \in 1..Len(s)}

\* ------------------------------------------------------------ fusion engine
Clamp(lo, hi, x) == IF x < lo THEN lo ELSE IF x > hi THEN hi ELSE x

Abs(x) == IF x < 0 THEN 0 - x ELSE x

\* n / d rounded to the nearest integer (n >= 0, d > 0).
RoundDiv(n, d) == (2 * n + d) \div (2 * d)

\* An update that applies the whole Bayes step whatever the weight.
bayesian_update_unweighted(prior0, likelihood0, evidence_weight0) ==
    LET prior == Clamp(1, 99, prior0)
        likelihood == Clamp(1, 99, likelihood0)
        numerator == likelihood * prior
        denominator == numerator + (100 - likelihood) * (100 - prior)
    IN  [posterior |-> RoundDiv(100 * numerator, denominator),
         confidence |-> 10]

\* BayesianLearningSystem.bayesian_update, in hundredths.
bayesian_update(prior0, likelihood0, evidence_weight0) ==
    LET prior == Clamp(1, 99, prior0)
        likelihood == Clamp(1, 99, likelihood0)
        evidence_weight == Clamp(0, 100, evidence_weight0)
        numerator == likelihood * prior
        denominator == numerator + (100 - likelihood) * (100 - prior)
        \* prior + (numerator/denominator - prior) * evidence_weight
        scaled == prior * denominator * 100
                  + (100 * numerator - prior * denominator) * evidence_weight
        posterior == IF denominator = 0 THEN prior
                     ELSE RoundDiv(scaled, denominator * 100)
        deviation == IF denominator = 0 THEN 0
                     ELSE RoundDiv(Abs(100 * numerator - prior * denominator)
                                   * evidence_weight, denominator)
        confidence == RoundDiv(deviation * evidence_weight, 10000)
    IN  [posterior |-> posterior, confidence |-> Clamp(10, 95, confidence)]

RECURSIVE FusionFold(_, _, _, _)
\* The loop of bayesian_fusion_multiple from evidence i on.
FusionFold(evidences, i, current_posterior, cumulative_confidence) ==
    IF i > Len(evidences)
    THEN [posterior |-> current_posterior, cumulative |-> cumulative_confidence]
    ELSE LET result == bayesian_update(current_posterior, evidences[i].value,
                                       evidences[i].confidence)
         IN  FusionFold(evidences, i + 1, result.posterior,
                        cumulative_confidence
                        + result.confidence * evidences[i].confidence)

\* BayesianLearningSystem.bayesian_fusion_multiple.
bayesian_fusion_multiple(evidences) ==
    IF evidences = <<>>
    THEN [posterior |-> 50, confidence |-> 0]
    ELSE LET f == FusionFold(evidences, 1, 50, 0)
             avg_confidence == RoundDiv(f.cumulative, 100 * Len(evidences))
         IN  [posterior |-> f.posterior,
              confidence |-> IF avg_confidence > 95 THEN 95 ELSE avg_confidence]

\* --------------------------------------------------------------- the store
VARIABLES
    bayes_evidence, \* committed queue: Seq of [key, value, confidence, processed]
    bayes_priors,   \* committed priors: set of [rid, key, mu, sigma, updated_at]
    now,            \* the store's clock: advances with every commit
    batchLimit,     \* BATCH_LIMIT as configured
    pc,             \* each worker's position in run_batch
    exit,           \* how each worker's last run ended
    exc,            \* the exception leaving run_batch, if any
    attempts,       \* connection attempts of the current run
    txn,            \* each worker's transaction: none, open, aborted
    tstart,         \* start time of each worker's transaction (NOW())
    rows,           \* rows fetched by each worker's SELECT
    groups,         \* keys of the groups dict, in insertion order
    gidx,           \* index of the group the loop is at
    out,            \* fusion result of the current group
    failed,         \* groups whose try block raised
    upserts,        \* uncommitted upsert statements of each worker
    marking,        \* ids the uncommitted UPDATE sets processed
    seeded,         \* rows the queue held when a worker was first started
    commits,        \* per row: number of commits that set it processed
    fusedIn,        \* per row: number of committed fusions it was an input of
    m_pc,           \* position of the find_corroborations call
    article,        \* the target article of the call
    recent_articles, \* the candidate pool of the call
    threshold,      \* the call's threshold
    top_n,          \* the call's top_n
    stage,          \* the stage of semantic_scores that answers
    have_rapidfuzz, \* HAVE_RAPIDFUZZ of this build
    candidates,     \* the prefilter's output
    sem_scores,     \* one semantic score per candidate
    results,        \* the hits returned
    path,           \* which code returned them: engine or fallback
    max_candidates, \* CORROBORATION_MAX_CANDIDATES as configured
    args,           \* arguments of the function call under way
    ret,            \* what the call returned or raised
    SentenceTransformer, \* sentence_transformers could be imported
    TfidfVectorizer, \* sklearn's TfidfVectorizer could be imported
    CosineSimilarity, \* sklearn's cosine_similarity could be imported
    sentence_model, \* the engine's field: 0 for None, else the handle
    tfidf,          \* the engine's field: 0 for None, else the vectorizer
    loads,          \* number of SentenceTransformer objects constructed
    target_text,    \* semantic_scores' target_text
    candidates_texts, \* semantic_scores' candidates_texts
    req             \* per request thread: position, locals, what it returned

workerVars == <<pc, exit, exc, attempts, txn, tstart, rows, groups, gidx,
                out, failed, upserts, marking>>
storeVars == <<bayes_evidence, bayes_priors, now, batchLimit>>
historyVars == <<seeded, commits, fusedIn>>
batchVars == <<storeVars, workerVars, historyVars>>
matchVars == <<m_pc, article, recent_articles, threshold, top_n, stage,
               have_rapidfuzz, candidates, sem_scores, results, path,
               max_candidates>>
callVars == <<args, ret>>
semVars == <<SentenceTransformer, TfidfVectorizer, CosineSimilarity,
             sentence_model, tfidf, loads, target_text, candidates_texts, req>>
\* Everything but the batch worker's state, but the matcher's, but a call's,
\* but the semantic scorer's.
exceptBatch == <<matchVars, callVars, semVars>>
exceptMatch == <<batchVars, callVars, semVars>>
exceptCall == <<batchVars, matchVars, semVars>>
exceptSem == <<batchVars, matchVars, callVars>>
vars == <<batchVars, matchVars, callVars, semVars>>

NoOut == [posterior |-> 50, confidence |-> 0]

NoArticle ==
    [id |-> <<>>, title |-> <<>>, summary |-> <<>>, source |-> "",
     date |-> <<>>, naive |-> FALSE, themes |-> {}]

\* No call of find_corroborations is under way.
MatchIdle ==
    /\ m_pc = "idle"
    /\ article = NoArticle
    /\ recent_articles = <<>>
    /\ threshold = 6500
    /\ top_n = 0
    /\ stage = "fuzzy"
    /\ have_rapidfuzz = FALSE
    /\ candidates = <<>>
    /\ sem_scores = <<>>
    /\ results = <<>>
    /\ path = "none"
    /\ max_candidates = 25

\* A request thread that has not called semantic_scores.
NoRequest ==
    [pc |-> "idle", sent_model |-> 0, tfidf |-> 0, ret |-> <<>>,
     by |-> "none", raised |-> FALSE]

\* The engine is as constructed and no thread is in semantic_scores.
SemIdle ==
    /\ SentenceTransformer = FALSE
    /\ TfidfVectorizer = FALSE
    /\ CosineSimilarity = FALSE
    /\ sentence_model = 0
    /\ tfidf = 0
    /\ loads = 0
    /\ target_text = <<>>
    /\ candidates_texts = <<>>
    /\ req = [t \in Threads |-> NoRequest]

\* No function is being called on its own.
CallIdle ==
    /\ args = <<>>
    /\ ret = <<>>
    /\ SemIdle

\* Empty tables, no worker started.
WorkerIdle ==
    /\ bayes_evidence = <<>>
    /\ bayes_priors = {}
    /\ now = 0
    /\ pc = [w \in Workers |-> "idle"]
    /\ exit = [w \in Workers |-> "none"]
    /\ exc = [w \in Workers |-> "none"]
    /\ attempts = [w \in Workers |-> 0]
    /\ txn = [w \in Workers |-> "none"]
    /\ tstart = [w \in Workers |-> 0]
    /\ rows = [w \in Workers |-> <<>>]
    /\ groups = [w \in Workers |-> <<>>]
    /\ gidx = [w \in Workers |-> 0]
    /\ out = [w \in Workers |-> NoOut]
    /\ failed = [w \in Workers |-> {}]
    /\ upserts = [w \in Workers |-> <<>>]
    /\ marking = [w \in Workers |-> {}]
    /\ seeded = 0
    /\ commits = <<>>
    /\ fusedIn = <<>>

Init ==
    /\ WorkerIdle
    /\ batchLimit \in 1..MaxBatchLimit
    /\ MatchIdle
    /\ CallIdle

\* Some worker has been started.
Started == \E w \in Workers : pc[w] # "idle" \/ exit[w] # "none"

\* A collaborator appends one evidence row (append-only queue).
InsertEvidence(key) ==
    /\ Len(bayes_evidence) < MaxRows
    /\ LET payload == EvidenceTable[(Len(bayes_evidence) % Len(EvidenceTable)) + 1]
       IN  bayes_evidence' = Append(bayes_evidence,
               [key |-> key, value |-> payload.value,
                confidence |-> payload.confidence, processed |-> FALSE])
    /\ commits' = Append(commits, 0)
    /\ fusedIn' = Append(fusedIn, 0)
    /\ UNCHANGED <<exceptBatch, bayes_priors, now, batchLimit, workerVars, seeded>>

\* ------------------------------------------------------- run_batch, helpers
\* Row locks a worker holds: the rows its SELECT ... FOR UPDATE returned, for as
\* long as its transaction is open.
Locked(w) == IF txn[w] = "open" THEN {r.id : r \in Range(rows[w])} ELSE {}

\* Claimable as a plain SELECT would see it: no row lock taken or honoured.
ClaimableNoRowLock(w) ==
    {i \in 1..Len(bayes_evidence) : ~bayes_evidence[i].processed}

\* WHERE processed = false ... FOR UPDATE SKIP LOCKED: the ids worker w may claim.
Claimable(w) ==
    {i \in 1..Len(bayes_evidence) :
        /\ ~bayes_evidence[i].processed
        /\ \A o \in Workers \ {w} : i \notin Locked(o)}

\* The SELECT without its WHERE processed = false.
SelectForUpdateAnyRow(w) ==
    LET Keep(i) == \A o \in Workers \ {w} : i \notin Locked(o)
        ordered == SelectSeq([i \in 1..Len(bayes_evidence) |-> i], Keep)
        n == IF Len(ordered) < batchLimit THEN Len(ordered) ELSE batchLimit
    IN  [j \in 1..n |->
            [id |-> ordered[j],
             key |-> bayes_evidence[ordered[j]].key,
             value |-> bayes_evidence[ordered[j]].value,
             confidence |-> bayes_evidence[ordered[j]].confidence]]

\* The SELECT with ORDER BY created_at DESC.
SelectForUpdateNewest(w) ==
    LET ids == Claimable(w)
        Keep(i) == i \in ids
        ordered == SelectSeq([i \in 1..Len(bayes_evidence) |->
                                 Len(bayes_evidence) + 1 - i], Keep)
        n == IF Len(ordered) < batchLimit THEN Len(ordered) ELSE batchLimit
    IN  [j \in 1..n |->
            [id |-> ordered[j],
             key |-> bayes_evidence[ordered[j]].key,
             value |-> bayes_evidence[ordered[j]].value,
             confidence |-> bayes_evidence[ordered[j]].confidence]]

\* The SELECT with a limit one short: LIMIT BATCH_LIMIT - 1.
SelectForUpdateShort(w) ==
    LET ids == Claimable(w)
        Keep(i) == i \in ids
        ordered == SelectSeq([i \in 1..Len(bayes_evidence) |-> i], Keep)
        n == IF Len(ordered) < batchLimit - 1 THEN Len(ordered)
             ELSE batchLimit - 1
    IN  [j \in 1..n |->
            [id |-> ordered[j],
             key |-> bayes_evidence[ordered[j]].key,
             value |-> bayes_evidence[ordered[j]].value,
             confidence |-> bayes_evidence[ordered[j]].confidence]]

\* The SELECT of run_batch: ORDER BY created_at ... LIMIT BATCH_LIMIT.
SelectForUpdate(w) ==
    LET ids == Claimable(w)
        Keep(i) == i \in ids
        ordered == SelectSeq([i \in 1..Len(bayes_evidence) |-> i], Keep)
        n == IF Len(ordered) < batchLimit THEN Len(ordered) ELSE batchLimit
    IN  [j \in 1..n |->
            [id |-> ordered[j],
             key |-> bayes_evidence[ordered[j]].key,
             value |-> bayes_evidence[ordered[j]].value,
             confidence |-> bayes_evidence[ordered[j]].confidence]]

\* One group per fetched row instead of one per entity.
GroupKeysPerRow(rs) == [i \in 1..Len(rs) |-> rs[i].key]

\* Keys of the groups dict, in insertion order (first appearance in rows).
GroupKeys(rs) ==
    LET F[i \in 0..Len(rs)] ==
            IF i = 0 THEN <<>>
            ELSE IF \E j \in 1..(i - 1) : rs[j].key = rs[i].key
                 THEN F[i - 1]
                 ELSE Append(F[i - 1], rs[i].key)
    IN  F[Len(rs)]

\* The UPDATE without its WHERE id = ANY(ids): every unprocessed row is set.
IdsToMarkUnprocessed(w) ==
    {i \in 1..Len(bayes_evidence) : ~bayes_evidence[i].processed}

\* ids_to_mark holding only the rows of the groups that were fused.
IdsToMarkFusedOnly(w) == {r.id : r \in {x \in Range(rows[w]) : x.key \notin failed[w]}}

\* ids_to_mark: the id of every fetched row.
IdsToMark(w) == {r.id : r \in Range(rows[w])}

\* A group that also takes in the rows of other entities fetched between its
\* first and its last row.
GroupEvidencesThrough(rs, key) ==
    LET at == {i \in 1..Len(rs) : rs[i].key = key}
        Between(r) == \E i \in 1..Len(rs) :
                         /\ rs[i] = r
                         /\ \E a \in at : a <= i
                         /\ \E b \in at : i <= b
        mine == SelectSeq(rs, Between)
    IN  [j \in 1..Len(mine) |->
            [value |-> IF mine[j].value = <<>> THEN 50 ELSE mine[j].value[1],
             confidence |-> IF mine[j].confidence = <<>> THEN 50
                            ELSE mine[j].confidence[1]]]

\* groups[key]: the evidences of one entity, NULL replaced by 0.5.
GroupEvidences(rs, key) ==
    LET Mine(r) == r.key = key
        mine == SelectSeq(rs, Mine)
    IN  [j \in 1..Len(mine) |->
            [value |-> IF mine[j].value = <<>> THEN 50 ELSE mine[j].value[1],
             confidence |-> IF mine[j].confidence = <<>> THEN 50
                            ELSE mine[j].confidence[1]]]

CurrentKey(w) == groups[w][gidx[w]]

\* Keys a worker's open transaction has written to bayes_priors.
PendingKeys(w) ==
    IF txn[w] = "open" THEN {u.key : u \in Range(upserts[w])} ELSE {}

\* No unique index on (entity_type, entity_id): an upsert never waits.
NeverBlockedBy(w, o) == FALSE

\* The upsert of w waits for another transaction's uncommitted write of the
\* same (entity_type, entity_id): the unique index ON CONFLICT names.
BlockedBy(w, o) ==
    /\ o # w
    /\ pc[w] = "upsert"
    /\ txn[w] = "open"
    /\ CurrentKey(w) \in PendingKeys(o)

Blocked(w) == \E o \in Workers : BlockedBy(w, o)

\* INSERT ... ON CONFLICT(entity_type, entity_id) DO UPDATE, as one statement
\* of w's transaction: it updates in place when the key has a row.
UpsertStatement(w, key, posterior, sigma) ==
    [key |-> key, mu |-> posterior, sigma |-> sigma, updated_at |-> tstart[w],
     conflict |-> \/ \E p \in bayes_priors : p.key = key
                  \/ key \in PendingKeys(w)]

\* An upsert that leaves the stored record alone: ON CONFLICT DO NOTHING.
ApplyUpsertDoNothing(priors, u) ==
    IF u.conflict
    THEN priors
    ELSE priors \cup {[rid |-> Cardinality(priors) + 1, key |-> u.key,
                       mu |-> u.mu, sigma |-> u.sigma,
                       updated_at |-> u.updated_at]}

\* The effect of one committed upsert statement on bayes_priors.
ApplyUpsert(priors, u) ==
    IF u.conflict
    THEN {IF p.key = u.key
          THEN [p EXCEPT !.mu = u.mu, !.sigma = u.sigma,
                         !.updated_at = u.updated_at]
          ELSE p : p \in priors}
    ELSE priors \cup {[rid |-> Cardinality(priors) + 1, key |-> u.key,
                       mu |-> u.mu, sigma |-> u.sigma,
                       updated_at |-> u.updated_at]}

RECURSIVE ApplyUpserts(_, _, _)
ApplyUpserts(priors, us, i) ==
    IF i > Len(us) THEN priors
    ELSE ApplyUpserts(ApplyUpsert(priors, us[i]), us, i + 1)

\* A loop that goes back to the grouping while groups remain.
AdvanceRegroup(w) ==
    IF gidx[w] < Len(groups[w])
    THEN /\ gidx' = [gidx EXCEPT ![w] = gidx[w] + 1]
         /\ pc' = [pc EXCEPT ![w] = "group"]
    ELSE /\ gidx' = gidx
         /\ pc' = [pc EXCEPT ![w] = "mark"]

\* The loop "for (etype, eid), evidences in groups.items()" moves on.
Advance(w) ==
    IF gidx[w] < Len(groups[w])
    THEN /\ gidx' = [gidx EXCEPT ![w] = gidx[w] + 1]
         /\ pc' = [pc EXCEPT ![w] = "fuse"]
    ELSE /\ gidx' = gidx
         /\ pc' = [pc EXCEPT ![w] = "mark"]

\* ------------------------------------------------------ run_batch, actions
\* run_batch is over (return, exception or kill): its frame is gone.
EndRun(w, how) ==
    /\ pc' = [pc EXCEPT ![w] = "idle"]
    /\ exit' = [exit EXCEPT ![w] = how]
    /\ txn' = [txn EXCEPT ![w] = "none"]
    /\ attempts' = [attempts EXCEPT ![w] = 0]
    /\ tstart' = [tstart EXCEPT ![w] = 0]
    /\ rows' = [rows EXCEPT ![w] = <<>>]
    /\ groups' = [groups EXCEPT ![w] = <<>>]
    /\ gidx' = [gidx EXCEPT ![w] = 0]
    /\ out' = [out EXCEPT ![w] = NoOut]
    /\ failed' = [failed EXCEPT ![w] = {}]
    /\ upserts' = [upserts EXCEPT ![w] = <<>>]
    /\ marking' = [marking EXCEPT ![w] = {}]

\* run_batch is started: by __main__, or by the trigger's thread.
Launch(w) ==
    /\ pc[w] = "idle"
    /\ pc' = [pc EXCEPT ![w] = "connect"]
    /\ exit' = [exit EXCEPT ![w] = "none"]
    /\ exc' = [exc EXCEPT ![w] = "none"]
    /\ seeded' = IF Started THEN seeded ELSE Len(bayes_evidence)
    /\ UNCHANGED <<exceptBatch, storeVars, commits, fusedIn, attempts, txn, tstart, rows, groups,
                   gidx, out, failed, upserts, marking>>

\* psycopg2.connect(DSN) succeeds.
Connect(w) ==
    /\ pc[w] = "connect"
    /\ attempts' = [attempts EXCEPT ![w] = attempts[w] + 1]
    /\ pc' = [pc EXCEPT ![w] = "select"]
    /\ UNCHANGED <<exceptBatch, storeVars, historyVars, exit, exc, txn, tstart, rows,
                   groups, gidx, out, failed, upserts, marking>>

\* psycopg2.connect(DSN) raises and run_batch tries again.
ConnectFailsRetried(w) ==
    /\ pc[w] = "connect"
    /\ attempts[w] < 3
    /\ attempts' = [attempts EXCEPT ![w] = attempts[w] + 1]
    /\ UNCHANGED <<exceptBatch, storeVars, historyVars, pc, exit, exc, txn, tstart, rows,
                   groups, gidx, out, failed, upserts, marking>>

\* psycopg2.connect(DSN) raises: nothing in run_batch handles it.
ConnectFails(w) ==
    /\ pc[w] = "connect"
    /\ attempts' = [attempts EXCEPT ![w] = attempts[w] + 1]
    /\ pc' = [pc EXCEPT ![w] = "raising"]
    /\ exc' = [exc EXCEPT ![w] = "connect"]
    /\ UNCHANGED <<exceptBatch, storeVars, historyVars, exit, txn, tstart, rows,
                   groups, gidx, out, failed, upserts, marking>>

\* The SELECT returns no row: log, close (the empty transaction ends), return.
SelectEmpty(w) ==
    /\ pc[w] = "select"
    /\ SelectForUpdate(w) = <<>>
    /\ EndRun(w, "empty")
    /\ UNCHANGED <<exceptBatch, storeVars, historyVars, exc>>

\* The SELECT returns rows and holds their locks.
SelectRows(w) ==
    /\ pc[w] = "select"
    /\ SelectForUpdate(w) # <<>>
    /\ rows' = [rows EXCEPT ![w] = SelectForUpdate(w)]
    /\ txn' = [txn EXCEPT ![w] = "open"]
    /\ tstart' = [tstart EXCEPT ![w] = now]
    /\ pc' = [pc EXCEPT ![w] = "group"]
    /\ UNCHANGED <<exceptBatch, storeVars, historyVars, exit, exc, attempts, groups,
                   gidx, out, failed, upserts, marking>>

\* The grouping loop over rows.
Group(w) ==
    /\ pc[w] = "group"
    /\ groups' = [groups EXCEPT ![w] = GroupKeys(rows[w])]
    /\ gidx' = [gidx EXCEPT ![w] = 1]
    /\ pc' = [pc EXCEPT ![w] = "fuse"]
    /\ UNCHANGED <<exceptBatch, storeVars, historyVars, exit, exc, attempts, txn,
                   tstart, rows, out, failed, upserts, marking>>

\* engine.bayesian_fusion_multiple(evidences) returns.
Fuse(w) ==
    /\ pc[w] = "fuse"
    /\ out' = [out EXCEPT ![w] =
                  bayesian_fusion_multiple(GroupEvidences(rows[w], CurrentKey(w)))]
    /\ pc' = [pc EXCEPT ![w] = "upsert"]
    /\ UNCHANGED <<exceptBatch, storeVars, historyVars, exit, exc, attempts, txn,
                   tstart, rows, groups, gidx, failed, upserts, marking>>

\* The fusion of the current group raises with no try block around it.
FuseThrowsUncaught(w) ==
    /\ pc[w] = "fuse"
    /\ failed' = [failed EXCEPT ![w] = failed[w] \cup {CurrentKey(w)}]
    /\ pc' = [pc EXCEPT ![w] = "raising"]
    /\ exc' = [exc EXCEPT ![w] = "fusion"]
    /\ UNCHANGED <<exceptBatch, storeVars, historyVars, exit, attempts, txn, tstart, rows,
                   groups, gidx, out, upserts, marking>>

\* The fusion of the current group raises: except Exception logs it and the
\* loop goes on with the next group.
FuseThrows(w) ==
    /\ pc[w] = "fuse"
    /\ failed' = [failed EXCEPT ![w] = failed[w] \cup {CurrentKey(w)}]
    /\ Advance(w)
    /\ UNCHANGED <<exceptBatch, storeVars, historyVars, exit, exc, attempts, txn,
                   tstart, rows, groups, out, upserts, marking>>

\* The upsert on a connection in autocommit mode: visible at once.
UpsertAutocommit(w) ==
    /\ pc[w] = "upsert"
    /\ txn[w] = "open"
    /\ ~Blocked(w)
    /\ LET posterior == out[w].posterior
           confidence == out[w].confidence
           sigma == IF 100 - confidence < 1 THEN 1 ELSE 100 - confidence
       IN  bayes_priors' = ApplyUpsert(bayes_priors,
               UpsertStatement(w, CurrentKey(w), posterior, sigma))
    /\ out' = [out EXCEPT ![w] = NoOut]
    /\ Advance(w)
    /\ UNCHANGED <<exceptBatch, bayes_evidence, now, batchLimit, historyVars, exit, exc,
                   attempts, txn, tstart, rows, groups, failed, upserts, marking>>

\* The upsert of the current group's posterior, inside w's transaction.
Upsert(w) ==
    /\ pc[w] = "upsert"
    /\ txn[w] = "open"
    /\ ~Blocked(w)
    /\ LET posterior == out[w].posterior
           confidence == out[w].confidence
           sigma == IF 100 - confidence < 1 THEN 1 ELSE 100 - confidence
       IN  upserts' = [upserts EXCEPT ![w] =
               Append(upserts[w],
                      UpsertStatement(w, CurrentKey(w), posterior, sigma))]
    /\ out' = [out EXCEPT ![w] = NoOut]
    /\ Advance(w)
    /\ UNCHANGED <<exceptBatch, storeVars, historyVars, exit, exc, attempts, txn,
                   tstart, rows, groups, failed, marking>>

\* The upsert raises a store error (the store picked this transaction as the
\* victim of a deadlock between two upserting workers, the connection was
\* lost, ...). The statement raises inside the try block; the transaction is
\* aborted and its locks and writes are gone.
UpsertFails(w) ==
    /\ pc[w] = "upsert"
    /\ txn[w] = "open"
    /\ txn' = [txn EXCEPT ![w] = "aborted"]
    /\ upserts' = [upserts EXCEPT ![w] = <<>>]
    /\ failed' = [failed EXCEPT ![w] = failed[w] \cup {CurrentKey(w)}]
    /\ out' = [out EXCEPT ![w] = NoOut]
    /\ Advance(w)
    /\ UNCHANGED <<exceptBatch, storeVars, historyVars, exit, exc, attempts, tstart, rows,
                   groups, marking>>

\* An upsert in an aborted transaction raises (InFailedSqlTransaction) and is
\* caught like any other exception of the try block.
UpsertInAborted(w) ==
    /\ pc[w] = "upsert"
    /\ txn[w] = "aborted"
    /\ failed' = [failed EXCEPT ![w] = failed[w] \cup {CurrentKey(w)}]
    /\ out' = [out EXCEPT ![w] = NoOut]
    /\ Advance(w)
    /\ UNCHANGED <<exceptBatch, storeVars, historyVars, exit, exc, attempts, txn,
                   tstart, rows, groups, upserts, marking>>

\* UPDATE bayes_evidence SET processed = true WHERE id = ANY(ids_to_mark).
Mark(w) ==
    /\ pc[w] = "mark"
    /\ txn[w] = "open"
    /\ marking' = [marking EXCEPT ![w] = IdsToMark(w)]
    /\ pc' = [pc EXCEPT ![w] = "commit"]
    /\ UNCHANGED <<exceptBatch, storeVars, historyVars, exit, exc, attempts, txn,
                   tstart, rows, groups, gidx, out, failed, upserts>>

\* The UPDATE in an aborted transaction raises, outside any try block.
MarkInAborted(w) ==
    /\ pc[w] = "mark"
    /\ txn[w] = "aborted"
    /\ pc' = [pc EXCEPT ![w] = "raising"]
    /\ exc' = [exc EXCEPT ![w] = "store"]
    /\ UNCHANGED <<exceptBatch, storeVars, historyVars, exit, attempts, txn, tstart,
                   rows, groups, gidx, out, failed, upserts, marking>>

\* conn.commit(): the transaction's upserts and its processed flags become
\* visible together; then close, log and return.
Commit(w) ==
    /\ pc[w] = "commit"
    /\ bayes_priors' = ApplyUpserts(bayes_priors, upserts[w], 1)
    /\ bayes_evidence' = [i \in 1..Len(bayes_evidence) |->
           IF i \in marking[w]
           THEN [bayes_evidence[i] EXCEPT !.processed = TRUE]
           ELSE bayes_evidence[i]]
    /\ commits' = [i \in 1..Len(commits) |->
           IF i \in marking[w] THEN commits[i] + 1 ELSE commits[i]]
    /\ fusedIn' = [i \in 1..Len(fusedIn) |->
           IF \E r \in Range(rows[w]) :
                  r.id = i /\ r.key \in {u.key : u \in Range(upserts[w])}
           THEN fusedIn[i] + 1 ELSE fusedIn[i]]
    /\ now' = now + 1
    /\ EndRun(w, "committed")
    /\ UNCHANGED <<exceptBatch, batchLimit, seeded, exc>>

\* The exception leaves run_batch in the script: the process ends with it.
RaiseInMain(w) ==
    /\ pc[w] = "raising"
    /\ Launcher[w] = "main"
    /\ EndRun(w, "fatal")
    /\ UNCHANGED <<exceptBatch, storeVars, historyVars, exc>>

\* The exception leaves run_batch in the trigger's thread: _target catches
\* and logs it, the thread ends and the service goes on.
RaiseInThread(w) ==
    /\ pc[w] = "raising"
    /\ Launcher[w] = "thread"
    /\ EndRun(w, "logged")
    /\ UNCHANGED <<exceptBatch, storeVars, historyVars, exc>>

\* The worker's process is killed before conn.commit() returns: the store
\* rolls back the transaction it had open.
Crash(w) ==
    /\ pc[w] # "idle"
    /\ EndRun(w, IF txn[w] = "open" THEN "rolledback" ELSE "killed")
    /\ UNCHANGED <<exceptBatch, storeVars, historyVars, exc>>

Next ==
    \/ \E key \in Entities : InsertEvidence(key)
    \/ \E w \in Workers : Launch(w)
    \/ \E w \in Workers : Connect(w)
    \/ \E w \in Workers : ConnectFails(w)
    \/ \E w \in Workers : SelectEmpty(w)
    \/ \E w \in Workers : SelectRows(w)
    \/ \E w \in Workers : Group(w)
    \/ \E w \in Workers : Fuse(w)
    \/ \E w \in Workers : FuseThrows(w)
    \/ \E w \in Workers : Upsert(w)
    \/ \E w \in Workers : UpsertFails(w)
    \/ \E w \in Workers : UpsertInAborted(w)
    \/ \E w \in Workers : Mark(w)
    \/ \E w \in Workers : MarkInAborted(w)
    \/ \E w \in Workers : Commit(w)
    \/ \E w \in Workers : RaiseInMain(w)
    \/ \E w \in Workers : RaiseInThread(w)
    \/ \E w \in Workers : Crash(w)

Spec == Init /\ [][Next]_vars

\* ---------------------------------------------- one worker on a filled queue
\* The queue holding one unprocessed row per key of ks, in creation order.
Queue(ks) ==
    [i \in 1..Len(ks) |->
        [key |-> ks[i],
         value |-> EvidenceTable[((i - 1) % Len(EvidenceTable)) + 1].value,
         confidence |->
             EvidenceTable[((i - 1) % Len(EvidenceTable)) + 1].confidence,
         processed |-> FALSE]]

\* The script's worker before its first run, on a queue of up to MaxSeeded
\* rows of any entities and with a batch limit of up to MaxSeeded.
InitBatch ==
    /\ \E n \in 0..MaxSeeded : \E ks \in [1..n -> Entities] :
          /\ bayes_evidence = Queue(ks)
          /\ commits = [i \in 1..n |-> 0]
          /\ fusedIn = [i \in 1..n |-> 0]
    /\ bayes_priors = {}
    /\ now = 0
    /\ batchLimit \in 1..MaxSeeded
    /\ pc = [w \in Workers |-> "idle"]
    /\ exit = [w \in Workers |-> "none"]
    /\ exc = [w \in Workers |-> "none"]
    /\ attempts = [w \in Workers |-> 0]
    /\ txn = [w \in Workers |-> "none"]
    /\ tstart = [w \in Workers |-> 0]
    /\ rows = [w \in Workers |-> <<>>]
    /\ groups = [w \in Workers |-> <<>>]
    /\ gidx = [w \in Workers |-> 0]
    /\ out = [w \in Workers |-> NoOut]
    /\ failed = [w \in Workers |-> {}]
    /\ upserts = [w \in Workers |-> <<>>]
    /\ marking = [w \in Workers |-> {}]
    /\ seeded = 0
    /\ MatchIdle
    /\ CallIdle

\* The runs of the script's worker; nobody inserts and no other worker runs.
NextBatch ==
    \/ Launch("w1")
    \/ Connect("w1")
    \/ ConnectFails("w1")
    \/ SelectEmpty("w1")
    \/ SelectRows("w1")
    \/ Group("w1")
    \/ Fuse("w1")
    \/ FuseThrows("w1")
    \/ Upsert("w1")
    \/ UpsertFails("w1")
    \/ UpsertInAborted("w1")
    \/ Mark("w1")
    \/ MarkInAborted("w1")
    \/ Commit("w1")
    \/ RaiseInMain("w1")
    \/ Crash("w1")

SpecBatch == InitBatch /\ [][NextBatch]_vars

\* What the environment does to a run: the store refuses the connection or
\* an upsert, or the process is killed.
Disrupting(w) ==
    \/ ConnectFails(w)
    \/ UpsertFails(w)
    \/ Crash(w)

\* The worker is started again and again (cron, or the trigger service), and
\* every run ends: it returns, raises or is killed. Nothing is assumed of how
\* a run ends.
SpecBatchLive ==
    /\ SpecBatch
    /\ WF_vars(Launch("w1"))
    /\ []<>(pc["w1"] = "idle")

\* ============================================ corroboration matcher: texts
\* A text is a sequence of character codes: 0 is a blank, 1..9 are lower-case
\* letters and 11..19 the same letters in upper case. <<>> is "" or None.
\* Scores of the matcher are fixed-point integers in ten-thousandths, the
\* precision of round(x, 4).
Lower(ch) == IF ch > 10 THEN ch - 10 ELSE ch

RECURSIVE Strip(_)
\* str.strip()
Strip(s) ==
    IF s = <<>> THEN s
    ELSE IF Head(s) = 0 THEN Strip(Tail(s))
    ELSE IF s[Len(s)] = 0 THEN Strip(SubSeq(s, 1, Len(s) - 1))
    ELSE s

RECURSIVE CollapseBlanks(_, _)
\* re.sub(r"\s+", " ", s), from character i on.
CollapseBlanks(s, i) ==
    IF i > Len(s) THEN <<>>
    ELSE IF s[i] = 0 /\ i > 1 /\ s[i - 1] = 0 THEN CollapseBlanks(s, i + 1)
    ELSE <<s[i]>> \o CollapseBlanks(s, i + 1)

\* _normalize_text
normalize_text(s) ==
    LET stripped == Strip(s)
    IN  CollapseBlanks([i \in 1..Len(stripped) |-> Lower(stripped[i])], 1)

RECURSIVE MatchingSize(_, _, _, _, _, _)
\* Total size of difflib's matching blocks of a[alo..ahi] and b[blo..bhi]: the
\* longest common block (the earliest in a, then the earliest in b), then the
\* same to its left and to its right.
MatchingSize(a, alo, ahi, b, blo, bhi) ==
    LET blocks == {t \in (alo..ahi) \X (blo..bhi) \X (1..(ahi - alo + 1)) :
                      /\ t[1] + t[3] - 1 <= ahi
                      /\ t[2] + t[3] - 1 <= bhi
                      /\ \A d \in 0..(t[3] - 1) : a[t[1] + d] = b[t[2] + d]}
    IN  IF blocks = {} THEN 0
        ELSE LET k == CHOOSE n \in {t[3] : t \in blocks} :
                          \A t \in blocks : t[3] <= n
                 longest == {t \in blocks : t[3] = k}
                 best == CHOOSE t \in longest : \A u \in longest :
                             t[1] < u[1] \/ (t[1] = u[1] /\ t[2] <= u[2])
             IN  k + MatchingSize(a, alo, best[1] - 1, b, blo, best[2] - 1)
                   + MatchingSize(a, best[1] + k, ahi, b, best[2] + k, bhi)

\* difflib.SequenceMatcher(None, a, b).ratio(): 2 M / T.
SequenceMatcherRatio(a, b) ==
    RoundDiv(20000 * MatchingSize(a, 1, Len(a), b, 1, Len(b)), Len(a) + Len(b))

RECURSIVE Split(_, _, _)
\* str.split(): the blank-separated tokens of s from character i on.
Split(s, i, token) ==
    IF i > Len(s) THEN (IF token = <<>> THEN <<>> ELSE <<token>>)
    ELSE IF s[i] = 0
         THEN (IF token = <<>> THEN <<>> ELSE <<token>>) \o Split(s, i + 1, <<>>)
         ELSE Split(s, i + 1, Append(token, s[i]))

RECURSIVE LexLeq(_, _)
\* s <= t as Python orders strings.
LexLeq(s, t) ==
    IF s = <<>> THEN TRUE
    ELSE IF t = <<>> THEN FALSE
    ELSE IF s[1] # t[1] THEN s[1] < t[1]
    ELSE LexLeq(Tail(s), Tail(t))

\* sorted(tokens)
SortTokens(tokens) ==
    LET F[i \in 0..Len(tokens)] ==
            IF i = 0 THEN <<>>
            ELSE LET prev == F[i - 1]
                     n == Cardinality({j \in 1..Len(prev) :
                                          LexLeq(prev[j], tokens[i])})
                 IN  SubSeq(prev, 1, n) \o <<tokens[i]>>
                       \o SubSeq(prev, n + 1, Len(prev))
    IN  F[Len(tokens)]

RECURSIVE Join(_)
\* " ".join(tokens)
Join(tokens) ==
    IF tokens = <<>> THEN <<>>
    ELSE IF Len(tokens) = 1 THEN tokens[1]
    ELSE tokens[1] \o <<0>> \o Join(Tail(tokens))

RECURSIVE LCS(_, _, _, _)
\* Length of the longest common subsequence of a[i..] and b[j..].
LCS(a, i, b, j) ==
    IF i > Len(a) \/ j > Len(b) THEN 0
    ELSE IF a[i] = b[j] THEN 1 + LCS(a, i + 1, b, j + 1)
    ELSE LET x == LCS(a, i + 1, b, j)
             y == LCS(a, i, b, j + 1)
         IN  IF x > y THEN x ELSE y

\* rapidfuzz.fuzz.token_sort_ratio(a, b) / 100: the normalized indel
\* similarity of the two texts with their tokens sorted.
token_sort_ratio(a, b) ==
    LET x == Join(SortTokens(Split(a, 1, <<>>)))
        y == Join(SortTokens(Split(b, 1, <<>>)))
    IN  RoundDiv(20000 * LCS(x, 1, y, 1), Len(x) + Len(y))

\* similarity(a, b)
similarity(a, b) ==
    LET a_n == normalize_text(a)
        b_n == normalize_text(b)
    IN  IF a_n = <<>> \/ b_n = <<>> THEN 0
        ELSE IF have_rapidfuzz THEN token_sort_ratio(a_n, b_n)
        ELSE SequenceMatcherRatio(a_n, b_n)

\* ======================================= corroboration matcher: the engine
\* round(10000 * exp(-h / 24)) for a distance of h = 0..120 hours.
ExpTable ==
    << 10000, 9592, 9200, 8825, 8465, 8119, 7788, 7470, 7165, 6873, 6592,
       6323, 6065, 5818, 5580, 5353, 5134, 4925, 4724, 4531, 4346, 4169,
       3998, 3835, 3679, 3529, 3385, 3247, 3114, 2987, 2865, 2748, 2636,
       2528, 2425, 2326, 2231, 2140, 2053, 1969, 1889, 1812, 1738, 1667,
       1599, 1534, 1471, 1411, 1353, 1298, 1245, 1194, 1146, 1099, 1054,
       1011, 970, 930, 892, 856, 821, 787, 755, 724, 695, 666, 639, 613, 588,
       564, 541, 519, 498, 478, 458, 439, 421, 404, 388, 372, 357, 342, 328,
       315, 302, 290, 278, 266, 256, 245, 235, 226, 216, 208, 199, 191, 183,
       176, 169, 162, 155, 149, 143, 137, 131, 126, 121, 116, 111, 107, 102,
       98, 94, 90, 87, 83, 80, 76, 73, 70, 67 >>

\* math.exp(-delta_seconds / (24 * 3600)) for a distance of h hours.
ExpDecay(h) == IF h < Len(ExpTable) THEN ExpTable[h + 1] ELSE 0

\* da - db raises TypeError: one datetime is offset-naive (parsed by one of
\* the strptime formats without %z), the other offset-aware.
SubtractionRaises(a, b) == a.date # <<>> /\ b.date # <<>> /\ a.naive # b.naive

\* A structural similarity that leaves the themes out.
structural_without_themes(a, b) ==
    LET src == IF a.source # "" /\ b.source # ""
               THEN <<IF a.source = b.source THEN 2000 ELSE 0>> ELSE <<>>
        tmp == IF a.date # <<>> /\ b.date # <<>>
               THEN <<RoundDiv(3 * ExpDecay(Abs(a.date[1] - b.date[1])), 10)>>
               ELSE <<>>
        scores == src \o tmp
    IN  IF scores = <<>> THEN 0
        ELSE IF Len(scores) = 1 THEN scores[1]
        ELSE RoundDiv(scores[1] + scores[2], 2)

\* compute_structural_similarity(a, b), when it returns.
compute_structural_similarity(a, b) ==
    LET src == IF a.source # "" /\ b.source # ""
               THEN <<IF a.source = b.source THEN 2000 ELSE 0>> ELSE <<>>
        jac == IF a.themes # {} /\ b.themes # {}
               THEN <<RoundDiv(5000 * Cardinality(a.themes \cap b.themes),
                               Cardinality(a.themes \cup b.themes))>>
               ELSE <<>>
        tmp == IF a.date # <<>> /\ b.date # <<>>
               THEN <<RoundDiv(3 * ExpDecay(Abs(a.date[1] - b.date[1])), 10)>>
               ELSE <<>>
        scores == src \o jac \o tmp
        total == IF scores = <<>> THEN 0
                 ELSE IF Len(scores) = 1 THEN scores[1]
                 ELSE IF Len(scores) = 2 THEN scores[1] + scores[2]
                 ELSE scores[1] + scores[2] + scores[3]
    IN  IF scores = <<>> THEN 0 ELSE RoundDiv(total, Len(scores))

\* A sort that puts an item before the items of equal key already placed.
SortDescUnstable(scored) ==
    LET F[i \in 0..Len(scored)] ==
            IF i = 0 THEN <<>>
            ELSE LET prev == F[i - 1]
                     n == Cardinality({j \in 1..Len(prev) :
                                          prev[j][1] > scored[i][1]})
                 IN  SubSeq(prev, 1, n) \o <<scored[i]>>
                       \o SubSeq(prev, n + 1, Len(prev))
    IN  [i \in 1..Len(scored) |-> F[Len(scored)][i][2]]

\* list.sort(key=..., reverse=True) on a list of <<key, item>> pairs:
\* descending by key and stable. The items, in sorted order.
SortDesc(scored) ==
    LET F[i \in 0..Len(scored)] ==
            IF i = 0 THEN <<>>
            ELSE LET prev == F[i - 1]
                     n == Cardinality({j \in 1..Len(prev) :
                                          prev[j][1] >= scored[i][1]})
                 IN  SubSeq(prev, 1, n) \o <<scored[i]>>
                       \o SubSeq(prev, n + 1, Len(prev))
    IN  [i \in 1..Len(scored) |-> F[Len(scored)][i][2]]

\* s[:n] for n >= 0.
Take(s, n) == SubSeq(s, 1, IF n < Len(s) THEN n ELSE Len(s))

\* The bucket _prefilter_candidates puts pool item c in.
Tier(art, c) ==
    IF art.id # <<>> /\ c.id = art.id THEN "self"
    ELSE IF art.source # "" /\ c.source # "" /\ c.source = art.source
         THEN "same_source"
    ELSE IF /\ c.date # <<>> /\ art.date # <<>>
            /\ ~SubtractionRaises(art, c)
            /\ Abs((art.date[1] - c.date[1]) \div 24) <= window_days
         THEN "recent"
    ELSE "other"

\* The prefilter without its budget: every pool item but the target.
prefilter_uncapped(art, pool) ==
    LET NotSelf(c) == Tier(art, c) # "self"
    IN  SelectSeq(pool, NotSelf)

\* A prefilter whose last tier is filled in pool order.
prefilter_unsorted_fill(art, pool) ==
    LET max_cand == IF max_candidates > 5 THEN max_candidates ELSE 5
        IsSame(c) == Tier(art, c) = "same_source"
        IsRecent(c) == Tier(art, c) = "recent"
        IsOther(c) == Tier(art, c) = "other"
        first == Take(SelectSeq(pool, IsSame), max_cand)
        second == first \o Take(SelectSeq(pool, IsRecent), max_cand - Len(first))
    IN  second \o Take(SelectSeq(pool, IsOther), max_cand - Len(second))

\* _prefilter_candidates(article, recent_articles)
prefilter_candidates(art, pool) ==
    LET max_cand == IF max_candidates > 5 THEN max_candidates ELSE 5
        IsSame(c) == Tier(art, c) = "same_source"
        IsRecent(c) == Tier(art, c) = "recent"
        IsOther(c) == Tier(art, c) = "other"
        same_source == SelectSeq(pool, IsSame)
        recent == SelectSeq(pool, IsRecent)
        other == SelectSeq(pool, IsOther)
        scored == [i \in 1..Len(other) |->
                      <<similarity(art.title, other[i].title), other[i]>>]
        first == Take(same_source, max_cand)
        second == IF max_cand - Len(first) > 0
                  THEN first \o Take(recent, max_cand - Len(first)) ELSE first
        needed == max_cand - Len(second)
    IN  IF needed > 0
        THEN second \o Take(SortDesc(scored), needed)
        ELSE second

\* _texts: title + " " + (summary or content).
Text(a) == a.title \o <<0>> \o a.summary

\* The hit appended for candidate cand with score s.
Hit(cand, s) ==
    [id |-> cand.id, title |-> cand.title, source |-> cand.source,
     similarity |-> s]

\* The hits paired with their sort key, x.get("similarity", 0).
BySimilarity(hits) == [i \in 1..Len(hits) |-> <<hits[i].similarity, hits[i]>>]

\* total_sim of the i-th candidate: 0.7 semantic + 0.3 structural.
TotalSimilarity(art, cands, sems, i) ==
    RoundDiv(7 * (IF i <= Len(sems) THEN sems[i] ELSE 0)
             + 3 * compute_structural_similarity(art, cands[i]), 10)

\* The fallback scan's score of pool item c: 0.6 title + 0.3 summary.
FallbackScore(art, c) ==
    RoundDiv(6 * similarity(art.title, c.title)
             + 3 * similarity(art.summary, c.summary), 10)

\* The loop of CorroborationEngine.find_corroborations over the candidates,
\* then sort and trim, when no structural similarity raises.
EngineResults(art, cands, sems, thr, n) ==
    LET Total(i) == TotalSimilarity(art, cands, sems, i)
        F[i \in 0..Len(cands)] ==
            IF i = 0 THEN <<>>
            ELSE IF Total(i) >= thr
                 THEN Append(F[i - 1], Hit(cands[i], Total(i)))
                 ELSE F[i - 1]
        sorted == SortDesc(BySimilarity(F[Len(cands)]))
    IN  IF n # 0 THEN Take(sorted, n) ELSE sorted

\* article.get("id") is truthy: present and not 0.
Truthy(id) == id # <<>> /\ id[1] # 0

\* The fallback scan of the module-level find_corroborations.
FallbackResults(art, pool, thr, n) ==
    LET Score(c) == FallbackScore(art, c)
        F[i \in 0..Len(pool)] ==
            IF i = 0 THEN <<>>
            ELSE IF Truthy(art.id) /\ pool[i].id = art.id THEN F[i - 1]
            ELSE IF Score(pool[i]) >= thr
                 THEN Append(F[i - 1], Hit(pool[i], Score(pool[i])))
                 ELSE F[i - 1]
    IN  Take(SortDesc(BySimilarity(F[Len(pool)])), n)

\* ------------------------------------------- find_corroborations, actions
\* The engine is given an empty pool: it returns [] at once.
EngineEmptyPool ==
    /\ m_pc = "called"
    /\ recent_articles = <<>>
    /\ results' = <<>>
    /\ path' = "engine"
    /\ m_pc' = "returned"
    /\ UNCHANGED <<exceptMatch, max_candidates, article, recent_articles,
                   threshold, top_n, stage, have_rapidfuzz, candidates,
                   sem_scores>>

\* candidates = self._prefilter_candidates(article, recent_articles)
EnginePrefilter ==
    /\ m_pc = "called"
    /\ recent_articles # <<>>
    /\ candidates' = prefilter_candidates(article, recent_articles)
    /\ m_pc' = "semantic"
    /\ UNCHANGED <<exceptMatch, max_candidates, article, recent_articles,
                   threshold, top_n, stage, have_rapidfuzz, sem_scores,
                   results, path>>

\* semantic_scores answers with the cosines of the embedding or of the
\* lexical stage: one score per candidate, whatever the library computes.
SemanticCosine ==
    /\ m_pc = "semantic"
    /\ stage \in {"embedding", "tfidf"}
    /\ sem_scores' \in [1..Len(candidates) -> SemValues]
    /\ m_pc' = "combine"
    /\ UNCHANGED <<exceptMatch, max_candidates, article, recent_articles,
                   threshold, top_n, stage, have_rapidfuzz, candidates,
                   results, path>>

\* semantic_scores answers with its last stage: similarity on whole texts.
SemanticFuzzy ==
    /\ m_pc = "semantic"
    /\ stage = "fuzzy"
    /\ sem_scores' = [i \in 1..Len(candidates) |->
                         similarity(Text(article), Text(candidates[i]))]
    /\ m_pc' = "combine"
    /\ UNCHANGED <<exceptMatch, max_candidates, article, recent_articles,
                   threshold, top_n, stage, have_rapidfuzz, candidates,
                   results, path>>

\* The scoring loop, the sort and the trim; the engine returns.
EngineCombine ==
    /\ m_pc = "combine"
    /\ \A i \in 1..Len(candidates) : ~SubtractionRaises(article, candidates[i])
    /\ results' = EngineResults(article, candidates, sem_scores, threshold, top_n)
    /\ path' = "engine"
    /\ m_pc' = "returned"
    /\ UNCHANGED <<exceptMatch, max_candidates, article, recent_articles,
                   threshold, top_n, stage, have_rapidfuzz, candidates,
                   sem_scores>>

\* compute_structural_similarity raises for some candidate: the exception
\* leaves the engine and the wrapper's except clause takes over.
EngineRaises ==
    /\ m_pc = "combine"
    /\ \E i \in 1..Len(candidates) : SubtractionRaises(article, candidates[i])
    /\ m_pc' = "fallback"
    /\ UNCHANGED <<exceptMatch, max_candidates, article, recent_articles,
                   threshold, top_n, stage, have_rapidfuzz, candidates,
                   sem_scores, results, path>>

\* The wrapper's fallback scan over the whole pool; the wrapper returns.
FallbackScan ==
    /\ m_pc = "fallback"
    /\ results' = FallbackResults(article, recent_articles, threshold, top_n)
    /\ path' = "fallback"
    /\ m_pc' = "returned"
    /\ UNCHANGED <<exceptMatch, max_candidates, article, recent_articles,
                   threshold, top_n, stage, have_rapidfuzz, candidates,
                   sem_scores>>

RECURSIVE SeqsUpTo(_, _)
\* Sequences over S of length at most n.
SeqsUpTo(S, n) ==
    IF n = 0 THEN {<<>>}
    ELSE SeqsUpTo(S, n - 1) \cup [1..n -> S]

\* One call of find_corroborations(article, recent_articles, threshold, top_n)
\* on a build with or without rapidfuzz, whose semantic_scores answers from
\* the given stage; the worker is not running.
InitMatch ==
    /\ WorkerIdle
    /\ batchLimit = 1
    /\ m_pc = "called"
    /\ article \in Catalogue
    /\ recent_articles \in SeqsUpTo(Catalogue, MaxPool)
    /\ threshold \in Thresholds
    /\ top_n \in 0..MaxTopN
    /\ stage \in {"embedding", "tfidf", "fuzzy"}
    /\ have_rapidfuzz \in BOOLEAN
    /\ candidates = <<>>
    /\ sem_scores = <<>>
    /\ results = <<>>
    /\ path = "none"
    /\ max_candidates = 25
    /\ CallIdle

NextMatch ==
    \/ EngineEmptyPool
    \/ EnginePrefilter
    \/ SemanticCosine
    \/ SemanticFuzzy
    \/ EngineCombine
    \/ EngineRaises
    \/ FallbackScan

SpecMatch == InitMatch /\ [][NextMatch]_vars

\* One call of find_corroborations with the loose threshold.
InitMatchLoose ==
    /\ WorkerIdle
    /\ batchLimit = 1
    /\ m_pc = "called"
    /\ article \in Catalogue
    /\ recent_articles \in SeqsUpTo(Catalogue, MaxPool)
    /\ threshold = LooseThreshold
    /\ top_n \in 0..MaxTopN
    /\ stage \in {"embedding", "tfidf", "fuzzy"}
    /\ have_rapidfuzz \in BOOLEAN
    /\ candidates = <<>>
    /\ sem_scores = <<>>
    /\ results = <<>>
    /\ path = "none"
    /\ max_candidates = 25
    /\ CallIdle

SpecMatchLoose == InitMatchLoose /\ [][NextMatch]_vars

\* ------------------------------------------------ the prefilter on its own
\* _prefilter_candidates on pools larger than its floor of 5 candidates, for
\* each configured max_candidates.
InitPrefilter ==
    /\ WorkerIdle
    /\ batchLimit = 1
    /\ CallIdle
    /\ m_pc = "called"
    /\ article \in Catalogue
    /\ recent_articles \in SeqsUpTo(BigPoolItems, MaxBigPool)
    /\ max_candidates \in MaxCandidatesValues
    /\ threshold = 6500
    /\ top_n = 0
    /\ stage = "fuzzy"
    /\ have_rapidfuzz = FALSE
    /\ candidates = <<>>
    /\ sem_scores = <<>>
    /\ results = <<>>
    /\ path = "none"

NextPrefilter ==
    \/ EngineEmptyPool
    \/ EnginePrefilter

SpecPrefilter == InitPrefilter /\ [][NextPrefilter]_vars

\* ------------------------------------------- the prefilter's time window
\* Largest pool handed to the prefilter when its window is examined.
MaxWindowPool == 2
\* Publication hours of the pool items; the target is published at hour 96,
\* so the items are 96, 95, 73, 72 and 1 hours older, of the same hour, and
\* 1, 72 and 73 hours newer.
WindowHours == {0, 1, 23, 24, 95, 96, 97, 168, 169}

\* An article of the given source and date, all with the same title.
Dated(id, source, date, naive) ==
    [id |-> id, title |-> <<1>>, summary |-> <<>>, source |-> source,
     date |-> date, naive |-> naive, themes |-> {}]

\* The target, its date parsed with or without an offset.
WindowTargets == {Dated(<<0>>, "s1", <<96>>, n) : n \in BOOLEAN}

\* Pool items of another source: dated around the target, or undated.
WindowPoolItems ==
    {Dated(<<1>>, "s2", <<h>>, n) : h \in WindowHours, n \in BOOLEAN}
      \cup {Dated(<<1>>, "s2", <<>>, FALSE)}

\* _prefilter_candidates on pools of dated items of another source.
InitWindow ==
    /\ WorkerIdle
    /\ batchLimit = 1
    /\ CallIdle
    /\ m_pc = "called"
    /\ article \in WindowTargets
    /\ recent_articles \in SeqsUpTo(WindowPoolItems, MaxWindowPool)
    /\ max_candidates = 25
    /\ threshold = 6500
    /\ top_n = 0
    /\ stage = "fuzzy"
    /\ have_rapidfuzz = FALSE
    /\ candidates = <<>>
    /\ sem_scores = <<>>
    /\ results = <<>>
    /\ path = "none"

NextWindow ==
    \/ EngineEmptyPool
    \/ EnginePrefilter

SpecWindow == InitWindow /\ [][NextWindow]_vars

\* ----------------------------------------- semantic_scores, request threads
\* Texts the requests score: _texts of two catalogue articles.
SemTexts == {Text(c) : c \in {x \in Catalogue : x.id \in {<<0>>, <<2>>}}}

\* The thread's record with the given fields replaced.
At(t, p, m, v) == [req EXCEPT ![t].pc = p, ![t].sent_model = m, ![t].tfidf = v]

\* A thread calls semantic_scores; batch_size is not passed.
CallSemanticScores(t) ==
    /\ req[t].pc = "idle"
    /\ req' = [req EXCEPT ![t].pc = "get_model"]
    /\ UNCHANGED <<exceptSem, SentenceTransformer, TfidfVectorizer,
                   CosineSimilarity, sentence_model, tfidf, loads,
                   target_text, candidates_texts>>

\* _get_sentence_model up to the constructor: the field is returned if set,
\* None if the library is missing, otherwise the model is to be constructed.
GetSentenceModel(t) ==
    /\ req[t].pc = "get_model"
    /\ req' = IF sentence_model # 0
              THEN At(t, "stage1", sentence_model, req[t].tfidf)
              ELSE IF ~SentenceTransformer
              THEN At(t, "stage1", 0, req[t].tfidf)
              ELSE At(t, "load", 0, req[t].tfidf)
    /\ UNCHANGED <<exceptSem, SentenceTransformer, TfidfVectorizer,
                   CosineSimilarity, sentence_model, tfidf, loads,
                   target_text, candidates_texts>>

\* SentenceTransformer(model_name) returns a new model; the field is assigned.
LoadSentenceModel(t) ==
    /\ req[t].pc = "load"
    /\ sentence_model' = loads + 1
    /\ loads' = loads + 1
    /\ req' = [req EXCEPT ![t].pc = "loaded"]
    /\ UNCHANGED <<exceptSem, SentenceTransformer, TfidfVectorizer,
                   CosineSimilarity, tfidf, target_text, candidates_texts>>

\* The constructor raises; the handler assigns None to the field.
LoadSentenceModelFails(t) ==
    /\ req[t].pc = "load"
    /\ sentence_model' = 0
    /\ req' = [req EXCEPT ![t].pc = "loaded"]
    /\ UNCHANGED <<exceptSem, SentenceTransformer, TfidfVectorizer,
                   CosineSimilarity, tfidf, loads, target_text,
                   candidates_texts>>

\* return self.sentence_model: the field as it is now.
ReturnSentenceModel(t) ==
    /\ req[t].pc = "loaded"
    /\ req' = At(t, "stage1", sentence_model, req[t].tfidf)
    /\ UNCHANGED <<exceptSem, SentenceTransformer, TfidfVectorizer,
                   CosineSimilarity, sentence_model, tfidf, loads,
                   target_text, candidates_texts>>

\* Stage 1 is skipped: no model or no cosine_similarity.
SkipEmbedding(t) ==
    /\ req[t].pc = "stage1"
    /\ ~(req[t].sent_model # 0 /\ CosineSimilarity)
    /\ req' = [req EXCEPT ![t].pc = "get_tfidf"]
    /\ UNCHANGED <<exceptSem, SentenceTransformer, TfidfVectorizer,
                   CosineSimilarity, sentence_model, tfidf, loads,
                   target_text, candidates_texts>>

\* Stage 1 answers: one cosine per candidate text.
Encode(t) ==
    /\ req[t].pc = "stage1"
    /\ req[t].sent_model # 0 /\ CosineSimilarity
    /\ \E sims \in [1..Len(candidates_texts) -> SemValues] :
          req' = [req EXCEPT ![t].pc = "returned", ![t].ret = sims,
                             ![t].by = "embedding"]
    /\ UNCHANGED <<exceptSem, SentenceTransformer, TfidfVectorizer,
                   CosineSimilarity, sentence_model, tfidf, loads,
                   target_text, candidates_texts>>

\* An exception that is not handled leaves semantic_scores.
Propagate(t) == [req EXCEPT ![t].pc = "returned", ![t].raised = TRUE]

\* A handler that answers with the fuzzy scores at once, the lexical stage
\* left out.
HandlerFallsToFuzzy(t) ==
    [req EXCEPT ![t].pc = "returned",
                ![t].ret = [i \in 1..Len(candidates_texts) |->
                               similarity(target_text, candidates_texts[i])],
                ![t].by = "fuzzy"]

\* What a thread does with an exception of encode or of the cosine of stage
\* 1: it is logged and the thread goes on with stage 2.
EncodeHandler(t) == [req EXCEPT ![t].pc = "get_tfidf"]

\* encode or the cosine of stage 1 raises.
EncodeRaises(t) ==
    /\ req[t].pc = "stage1"
    /\ req[t].sent_model # 0 /\ CosineSimilarity
    /\ req' = EncodeHandler(t)
    /\ UNCHANGED <<exceptSem, SentenceTransformer, TfidfVectorizer,
                   CosineSimilarity, sentence_model, tfidf, loads,
                   target_text, candidates_texts>>

\* _get_tfidf up to the constructor.
GetTfidf(t) ==
    /\ req[t].pc = "get_tfidf"
    /\ req' = IF tfidf # 0
              THEN At(t, "stage2", req[t].sent_model, tfidf)
              ELSE IF ~TfidfVectorizer
              THEN At(t, "stage2", req[t].sent_model, 0)
              ELSE At(t, "build", req[t].sent_model, 0)
    /\ UNCHANGED <<exceptSem, SentenceTransformer, TfidfVectorizer,
                   CosineSimilarity, sentence_model, tfidf, loads,
                   target_text, candidates_texts>>

\* TfidfVectorizer(...) returns a vectorizer; the field is assigned.
BuildTfidf(t) ==
    /\ req[t].pc = "build"
    /\ tfidf' = 1
    /\ req' = [req EXCEPT ![t].pc = "built"]
    /\ UNCHANGED <<exceptSem, SentenceTransformer, TfidfVectorizer,
                   CosineSimilarity, sentence_model, loads, target_text,
                   candidates_texts>>

\* The constructor raises; the handler assigns None to the field.
BuildTfidfFails(t) ==
    /\ req[t].pc = "build"
    /\ tfidf' = 0
    /\ req' = [req EXCEPT ![t].pc = "built"]
    /\ UNCHANGED <<exceptSem, SentenceTransformer, TfidfVectorizer,
                   CosineSimilarity, sentence_model, loads, target_text,
                   candidates_texts>>

\* return self.tfidf: the field as it is now.
ReturnTfidf(t) ==
    /\ req[t].pc = "built"
    /\ req' = At(t, "stage2", req[t].sent_model, tfidf)
    /\ UNCHANGED <<exceptSem, SentenceTransformer, TfidfVectorizer,
                   CosineSimilarity, sentence_model, tfidf, loads,
                   target_text, candidates_texts>>

\* The last stage: similarity of the whole texts, one per candidate text.
FuzzyScores == [i \in 1..Len(candidates_texts) |->
                   similarity(target_text, candidates_texts[i])]

\* Stage 2 is skipped: no vectorizer or no cosine_similarity; stage 3 answers.
SkipTfidf(t) ==
    /\ req[t].pc = "stage2"
    /\ ~(req[t].tfidf # 0 /\ CosineSimilarity)
    /\ req' = [req EXCEPT ![t].pc = "returned", ![t].ret = FuzzyScores,
                          ![t].by = "fuzzy"]
    /\ UNCHANGED <<exceptSem, SentenceTransformer, TfidfVectorizer,
                   CosineSimilarity, sentence_model, tfidf, loads,
                   target_text, candidates_texts>>

\* Stage 2 answers: one cosine per candidate text.
FitTransform(t) ==
    /\ req[t].pc = "stage2"
    /\ req[t].tfidf # 0 /\ CosineSimilarity
    /\ \E sims \in [1..Len(candidates_texts) -> SemValues] :
          req' = [req EXCEPT ![t].pc = "returned", ![t].ret = sims,
                             ![t].by = "tfidf"]
    /\ UNCHANGED <<exceptSem, SentenceTransformer, TfidfVectorizer,
                   CosineSimilarity, sentence_model, tfidf, loads,
                   target_text, candidates_texts>>

\* fit_transform or the cosine of stage 2 raises: logged, stage 3 answers.
FitTransformRaises(t) ==
    /\ req[t].pc = "stage2"
    /\ req[t].tfidf # 0 /\ CosineSimilarity
    /\ req' = [req EXCEPT ![t].pc = "returned", ![t].ret = FuzzyScores,
                          ![t].by = "fuzzy"]
    /\ UNCHANGED <<exceptSem, SentenceTransformer, TfidfVectorizer,
                   CosineSimilarity, sentence_model, tfidf, loads,
                   target_text, candidates_texts>>

\* A fresh engine shared by the request threads, any set of importable
\* libraries, one target and one list of candidate texts; nothing else runs.
InitSemantic ==
    /\ WorkerIdle
    /\ batchLimit = 1
    /\ MatchIdle
    /\ args = <<>>
    /\ ret = <<>>
    /\ SentenceTransformer \in BOOLEAN
    /\ TfidfVectorizer \in BOOLEAN
    /\ CosineSimilarity \in BOOLEAN
    /\ sentence_model = 0
    /\ tfidf = 0
    /\ loads = 0
    /\ target_text \in SemTexts
    /\ candidates_texts \in SeqsUpTo(SemTexts, MaxPool)
    /\ req = [t \in Threads |-> NoRequest]

NextSemantic ==
    \E t \in Threads :
        \/ CallSemanticScores(t)
        \/ GetSentenceModel(t)
        \/ LoadSentenceModel(t)
        \/ LoadSentenceModelFails(t)
        \/ ReturnSentenceModel(t)
        \/ SkipEmbedding(t)
        \/ Encode(t)
        \/ EncodeRaises(t)
        \/ GetTfidf(t)
        \/ BuildTfidf(t)
        \/ BuildTfidfFails(t)
        \/ ReturnTfidf(t)
        \/ SkipTfidf(t)
        \/ FitTransform(t)
        \/ FitTransformRaises(t)

SpecSemantic == InitSemantic /\ [][NextSemantic]_vars

\* ------------------------------------------------- the confidence calculator
\* A value of a features dictionary: absent, None, a non-numeric string, or a
\* number (scores in ten-thousandths, the corroboration count in units).
Absent == [kind |-> "absent", v |-> 0]
None == [kind |-> "none", v |-> 0]
Str == [kind |-> "str", v |-> 0]
Num(n) == [kind |-> "num", v |-> n]

\* features.get(key, default).
Get(x, default) == IF x.kind = "absent" THEN Num(default) ELSE x

\* x or default: None and 0 are falsy, a non-empty string is not.
Or(x, default) ==
    IF x.kind = "none" \/ (x.kind = "num" /\ x.v = 0) THEN Num(default) ELSE x

\* float(x) raises: TypeError for None, ValueError for a non-numeric string.
FloatRaises(x) == x.kind \in {"none", "str"}

\* clamp01: 0.0 when float() raises, else the value clamped to [0, 1].
clamp01(x) ==
    IF FloatRaises(x) THEN 0
    ELSE IF x.v < 0 THEN 0 ELSE IF x.v > 10000 THEN 10000 ELSE x.v

\* round(10000 * exp(-cp / 2)) for cp = 0..19; 0 beyond.
ExpHalfTable ==
    << 10000, 6065, 3679, 2231, 1353, 821, 498, 302, 183, 111,
       67, 41, 25, 15, 9, 6, 3, 2, 1, 1 >>

\* math.exp(-cp / 2.0) raises OverflowError: the exponent is above 709.78.
ExpOverflows(cp) == cp < -1419

\* clamp01(1.0 - math.exp(-cp / 2.0)), when exp returns.
corro_norm(cp) ==
    IF cp <= 0 THEN 0
    ELSE IF cp < Len(ExpHalfTable) THEN 10000 - ExpHalfTable[cp + 1]
    ELSE 10000

\* round(10000 / (1 + exp(-x))) for x = 6 * (r / 100 - 0.5), r = 0..100.
LogisticTable ==
    << 474, 502, 532, 563, 595, 630, 666, 704, 745, 787,
       832, 879, 928, 980, 1034, 1091, 1151, 1213, 1279, 1347,
       1419, 1493, 1571, 1652, 1736, 1824, 1915, 2010, 2108, 2210,
       2315, 2423, 2535, 2650, 2769, 2891, 3015, 3143, 3274, 3407,
       3543, 3682, 3823, 3965, 4110, 4256, 4403, 4551, 4700, 4850,
       5000, 5150, 5300, 5449, 5597, 5744, 5890, 6035, 6177, 6318,
       6457, 6593, 6726, 6857, 6985, 7109, 7231, 7350, 7465, 7577,
       7685, 7790, 7892, 7990, 8085, 8176, 8264, 8348, 8429, 8507,
       8581, 8653, 8721, 8787, 8849, 8909, 8966, 9020, 9072, 9121,
       9168, 9213, 9255, 9296, 9334, 9370, 9405, 9437, 9468, 9498,
       9526 >>

\* logistic(x) for x = (raw - 0.5) * 6.0 in hundredths, raw in [0, 1] rounded
\* to hundredths.
logistic(x) == LogisticTable[x \div 6 + 51]

\* The weighted sum without the source's term.
RawWithoutSource(sr, cn, mp, cov, nov, ss) ==
    RoundDiv(25 * cn + 20 * mp + 10 * cov
               + 5 * (10000 - nov) + 5 * (10000 - ss), 100)

\* raw: the weighted sum of the six normalised features.
RawCombination(sr, cn, mp, cov, nov, ss) ==
    RoundDiv(35 * sr + 25 * cn + 20 * mp + 10 * cov
               + 5 * (10000 - nov) + 5 * (10000 - ss), 100)

\* cp = float(features.get('corroboration_count', 0) or 0).
CountOf(features) == Or(Get(features.corroboration_count, 0), 0)

\* compute_confidence_from_features raises: float() on the count, or exp.
ConfidenceRaises(features) ==
    \/ FloatRaises(CountOf(features))
    \/ ExpOverflows(CountOf(features).v)

\* The confidence compute_confidence_from_features returns.
compute_confidence_from_features(features) ==
    LET sr == clamp01(Get(features.source_reliability, 5000))
        cp == CountOf(features).v
        mp == clamp01(Or(Get(features.model_prob, 0), 0))
        ss == clamp01(Or(Get(features.sentiment_strength, 0), 0))
        nov == clamp01(Or(Get(features.novelty_score, 0), 0))
        cov == clamp01(Or(Get(features.coverage, 0), 0))
        raw == RawCombination(sr, corro_norm(cp), mp, cov, nov, ss)
        confidence == logistic((RoundDiv(raw, 100) - 50) * 6)
    IN  clamp01(Num(confidence))

\* What a field of features may hold besides a number.
Garbage == {Absent, None, Str}
\* The features dictionaries of the calls: per field garbage, a negative and a
\* very large number, and the values of the two reference vectors.
FeatureSets ==
    [source_reliability : Garbage \cup {Num(-5000), Num(10000), Num(1000)},
     corroboration_count : Garbage \cup {Num(-3000), Num(1000000), Num(5), Num(0)},
     model_prob : Garbage \cup {Num(10000000), Num(9000), Num(2000)},
     sentiment_strength : {Str, Num(-5000), Num(1000), Num(9000)},
     novelty_score : {None, Num(10000000), Num(1000), Num(9000)},
     coverage : {Absent, Str, Num(8000), Num(1000)}]

\* The two reference vectors of the tests.
HighTrust ==
    [source_reliability |-> Num(10000), corroboration_count |-> Num(5),
     model_prob |-> Num(9000), sentiment_strength |-> Num(1000),
     novelty_score |-> Num(1000), coverage |-> Num(8000)]
LowTrust ==
    [source_reliability |-> Num(1000), corroboration_count |-> Num(0),
     model_prob |-> Num(2000), sentiment_strength |-> Num(9000),
     novelty_score |-> Num(9000), coverage |-> Num(1000)]

\* The call returns its confidence.
ComputeConfidence ==
    /\ args \in FeatureSets
    /\ ret = <<>>
    /\ ~ConfidenceRaises(args)
    /\ ret' = [raised |-> FALSE,
               confidence |-> compute_confidence_from_features(args)]
    /\ UNCHANGED <<exceptCall, args>>

\* The call raises.
ComputeConfidenceRaises ==
    /\ args \in FeatureSets
    /\ ret = <<>>
    /\ ConfidenceRaises(args)
    /\ ret' = [raised |-> TRUE, confidence |-> 0]
    /\ UNCHANGED <<exceptCall, args>>

\* One call of compute_confidence_from_features; nothing else runs.
InitConfidence ==
    /\ WorkerIdle
    /\ batchLimit = 1
    /\ MatchIdle
    /\ SemIdle
    /\ args \in FeatureSets
    /\ ret = <<>>

NextConfidence == ComputeConfidence \/ ComputeConfidenceRaises

SpecConfidence == InitConfidence /\ [][NextConfidence]_vars

\* ------------------------------------------------ the pairwise update alone
\* Priors, likelihoods and evidence weights of the calls, in hundredths.
Probabilities == 0..100
EvidenceWeights == {0, 50, 100}

\* The call returns.
BayesianUpdate ==
    /\ args \in [prior : Probabilities, likelihood : Probabilities,
                  evidence_weight : EvidenceWeights]
    /\ ret = <<>>
    /\ ret' = bayesian_update(args.prior, args.likelihood, args.evidence_weight)
    /\ UNCHANGED <<exceptCall, args>>

\* One call of bayesian_update; nothing else runs.
InitUpdate ==
    /\ WorkerIdle
    /\ batchLimit = 1
    /\ MatchIdle
    /\ SemIdle
    /\ args \in [prior : Probabilities, likelihood : Probabilities,
                  evidence_weight : EvidenceWeights]
    /\ ret = <<>>

NextUpdate == BayesianUpdate

SpecUpdate == InitUpdate /\ [][NextUpdate]_vars

\* ------------------------------------- structural similarity, pairs of calls
\* Themes of the records compared.
Themes == {"t1", "t2", "t3"}
\* The source and date fields the two records of a pair may have: the same
\* source or none, dates an hour apart or none.
Layouts ==
    {<<sa, sb, da, db>> \in {"", "s1"} \X {"", "s1", "s2"}
                            \X {<<>>, <<24>>} \X {<<>>, <<25>>} :
        (sa = "") = (sb = "") /\ (da = <<>>) = (db = <<>>)}

\* A record with the given source, date and themes.
Record(source, date, themes) ==
    [NoArticle EXCEPT !.source = source, !.date = date, !.themes = themes]

\* Two pairs of records that differ in their theme sets only.
PairsOfPairs ==
    {<<[a |-> Record(l[1], l[3], ta), b |-> Record(l[2], l[4], tb)],
       [a |-> Record(l[1], l[3], ta2), b |-> Record(l[2], l[4], tb2)]>> :
        l \in Layouts,
        ta \in SUBSET Themes, tb \in SUBSET Themes,
        ta2 \in SUBSET Themes, tb2 \in SUBSET Themes}

\* The next pair is compared.
StructuralCall ==
    /\ args \in PairsOfPairs
    /\ Len(ret) < Len(args)
    /\ ret' = Append(ret, compute_structural_similarity(
                              args[Len(ret) + 1].a, args[Len(ret) + 1].b))
    /\ UNCHANGED <<exceptCall, args>>

\* Two calls of compute_structural_similarity to come; nothing else runs.
InitStructural ==
    /\ WorkerIdle
    /\ batchLimit = 1
    /\ MatchIdle
    /\ SemIdle
    /\ args \in PairsOfPairs
    /\ ret = <<>>

NextStructural == StructuralCall

SpecStructural == InitStructural /\ [][NextStructural]_vars

\* ------------------------------------------------- the log-odds fusion alone
\* round(1000 * ln(p / (1 - p))) for p = 0.01..0.99 in hundredths.
LogOddsTable ==
    << -4595, -3892, -3476, -3178, -2944, -2752, -2587, -2442, -2314, -2197,
       -2091, -1992, -1901, -1815, -1735, -1658, -1586, -1516, -1450, -1386,
       -1325, -1266, -1208, -1153, -1099, -1046, -995, -944, -895, -847,
       -800, -754, -708, -663, -619, -575, -532, -490, -447, -405,
       -364, -323, -282, -241, -201, -160, -120, -80, -40, 0,
       40, 80, 120, 160, 201, 241, 282, 323, 364, 405,
       447, 490, 532, 575, 619, 663, 708, 754, 800, 847,
       895, 944, 995, 1046, 1099, 1153, 1208, 1266, 1325, 1386,
       1450, 1516, 1586, 1658, 1735, 1815, 1901, 1992, 2091, 2197,
       2314, 2442, 2587, 2752, 2944, 3178, 3476, 3892, 4595 >>

\* round(10^6 / (1 + exp(-x))) for x = 0.00..4.61 in hundredths.
LogisticOfLogOdds ==
    << 500000, 502500, 505000, 507499, 509999, 512497, 514996, 517493, 519989, 522485,
       524979, 527472, 529964, 532454, 534943, 537430, 539915, 542398, 544879, 547358,
       549834, 552308, 554779, 557248, 559714, 562177, 564636, 567093, 569546, 571996,
       574443, 576885, 579324, 581759, 584191, 586618, 589040, 591459, 593873, 596283,
       598688, 601088, 603483, 605874, 608259, 610639, 613014, 615384, 617748, 620106,
       622459, 624806, 627148, 629483, 631812, 634136, 636453, 638763, 641067, 643365,
       645656, 647941, 650219, 652489, 654753, 657010, 659260, 661503, 663739, 665967,
       668188, 670401, 672607, 674805, 676996, 679179, 681354, 683521, 685680, 687831,
       689974, 692110, 694236, 696355, 698465, 700567, 702661, 704746, 706822, 708890,
       710950, 713000, 715042, 717075, 719100, 721115, 723122, 725119, 727108, 729088,
       731059, 733020, 734973, 736916, 738850, 740775, 742691, 744597, 746494, 748382,
       750260, 752129, 753989, 755839, 757680, 759511, 761333, 763145, 764948, 766741,
       768525, 770299, 772064, 773819, 775564, 777300, 779026, 780743, 782450, 784147,
       785835, 787513, 789182, 790841, 792490, 794130, 795760, 797380, 798991, 800592,
       802184, 803766, 805338, 806901, 808455, 809998, 811533, 813057, 814573, 816078,
       817574, 819061, 820538, 822006, 823465, 824914, 826353, 827784, 829205, 830616,
       832018, 833411, 834795, 836170, 837535, 838891, 840238, 841576, 842905, 844224,
       845535, 846836, 848129, 849412, 850687, 851953, 853210, 854458, 855697, 856927,
       858149, 859362, 860566, 861762, 862949, 864127, 865297, 866458, 867611, 868756,
       869892, 871019, 872138, 873249, 874352, 875447, 876533, 877611, 878681, 879743,
       880797, 881843, 882881, 883911, 884933, 885948, 886954, 887953, 888944, 889927,
       890903, 891871, 892832, 893785, 894731, 895669, 896600, 897523, 898439, 899348,
       900250, 901144, 902031, 902911, 903784, 904651, 905510, 906362, 907207, 908045,
       908877, 909702, 910520, 911331, 912136, 912934, 913726, 914511, 915289, 916062,
       916827, 917587, 918340, 919087, 919827, 920561, 921290, 922012, 922728, 923438,
       924142, 924840, 925532, 926218, 926899, 927574, 928242, 928906, 929563, 930215,
       930862, 931502, 932138, 932768, 933392, 934011, 934625, 935233, 935836, 936434,
       937027, 937614, 938197, 938774, 939346, 939913, 940476, 941033, 941585, 942133,
       942676, 943214, 943747, 944276, 944799, 945319, 945833, 946343, 946849, 947350,
       947846, 948339, 948826, 949310, 949789, 950263, 950734, 951200, 951662, 952120,
       952574, 953024, 953470, 953911, 954349, 954783, 955212, 955638, 956060, 956478,
       956893, 957303, 957710, 958113, 958513, 958909, 959301, 959690, 960075, 960456,
       960834, 961209, 961580, 961948, 962312, 962673, 963031, 963385, 963736, 964084,
       964429, 964770, 965109, 965444, 965776, 966105, 966431, 966754, 967074, 967391,
       967705, 968016, 968324, 968629, 968932, 969231, 969528, 969822, 970113, 970402,
       970688, 970971, 971252, 971529, 971805, 972077, 972348, 972615, 972880, 973143,
       973403, 973661, 973916, 974169, 974419, 974667, 974913, 975156, 975398, 975636,
       975873, 976107, 976339, 976569, 976797, 977023, 977246, 977467, 977687, 977904,
       978119, 978332, 978543, 978752, 978959, 979164, 979367, 979568, 979767, 979964,
       980160, 980353, 980545, 980735, 980923, 981109, 981293, 981476, 981657, 981836,
       982014, 982190, 982364, 982536, 982707, 982876, 983043, 983209, 983374, 983536,
       983698, 983857, 984015, 984172, 984327, 984480, 984632, 984783, 984932, 985080,
       985226, 985371, 985514, 985656, 985797, 985936, 986074, 986211, 986346, 986480,
       986613, 986745, 986875, 987004, 987131, 987258, 987383, 987507, 987630, 987751,
       987872, 987991, 988109, 988226, 988342, 988456, 988570, 988682, 988794, 988904,
       989013, 989121, 989228, 989334, 989439, 989543, 989646, 989748, 989849, 989949,
       990048, 990146 >>

\* prob_to_logodds, in thousandths: -1e6 and 1e6 at the ends of [0, 1].
prob_to_logodds(p) ==
    IF p <= 0 THEN 0 - 1000000000
    ELSE IF p >= 100 THEN 1000000000
    ELSE LogOddsTable[p]

\* logodds_to_prob of l thousandths, in millionths: the table entry below l
\* and the next one, interpolated; 1.0 when exp(-l) underflows above the
\* table, 0.0 when it overflows below it.
logodds_to_prob(l) ==
    LET a == Abs(l)
        i == a \div 10
        up == IF i + 2 > Len(LogisticOfLogOdds) THEN 1000000
              ELSE LET lo == LogisticOfLogOdds[i + 1]
                       hi == LogisticOfLogOdds[i + 2]
                   IN  lo + RoundDiv((hi - lo) * (a % 10), 10)
    IN  IF l >= 0 THEN up ELSE 1000000 - up

RECURSIVE SumLogOdds(_, _)
\* The sum of prob_to_logodds(lk) * 0.5 over the likelihoods from i on.
SumLogOdds(likelihoods, i) ==
    IF i > Len(likelihoods) THEN 0
    ELSE prob_to_logodds(likelihoods[i]) \div 2 + SumLogOdds(likelihoods, i + 1)

\* lod / (1.0 + 0.5 * n).
Dampened(lod, n) ==
    IF Abs(lod) > 1000000 THEN (lod \div (2 + n)) * 2
    ELSE RoundDiv(2 * lod, 2 + n)

\* A fusion that divides the sum by 1 + n.
fusion_divided_by_count(prior, likelihoods) ==
    IF likelihoods = <<>> THEN Clamp(0, 100, prior) * 10000
    ELSE logodds_to_prob(
             (prob_to_logodds(prior) + SumLogOdds(likelihoods, 1))
                \div (1 + Len(likelihoods)))

\* simple_bayesian_fusion(prior, likelihoods), in millionths.
simple_bayesian_fusion(prior, likelihoods) ==
    IF likelihoods = <<>> THEN Clamp(0, 100, prior) * 10000
    ELSE logodds_to_prob(
             Dampened(prob_to_logodds(prior) + SumLogOdds(likelihoods, 1),
                      Len(likelihoods)))

\* Priors strictly between 0 and 1, and the likelihoods of the calls.
Priors == 1..99
Likelihoods == {0, 1, 10, 30, 50, 51, 60, 70, 80, 99, 100}
FusionCalls ==
    [prior : Priors,
     likelihoods : {s \in SeqsUpTo(Likelihoods, MaxLikelihoods) : s # <<>>}]

\* The call returns.
SimpleFusion ==
    /\ args \in FusionCalls
    /\ ret = <<>>
    /\ ret' = [posterior |->
                  simple_bayesian_fusion(args.prior, args.likelihoods)]
    /\ UNCHANGED <<exceptCall, args>>

\* One call of simple_bayesian_fusion; nothing else runs.
InitFusion ==
    /\ WorkerIdle
    /\ batchLimit = 1
    /\ MatchIdle
    /\ SemIdle
    /\ args \in FusionCalls
    /\ ret = <<>>

NextFusion == SimpleFusion

SpecFusion == InitFusion /\ [][NextFusion]_vars

\* ================================================================== claims
\* The worker's last run returned normally (after its commit, or with nothing
\* to do).
Finished(w) == pc[w] = "idle" /\ exit[w] \in {"committed", "empty"}

\* C1: in every interleaving of the two workers the sets of rows they hold
\* claimed are disjoint; and for a seeded queue of at most batchLimit rows,
\* once both workers have finished, every seeded row has been marked processed
\* by exactly one commit and fused at most once.
C1_MutualExclusion ==
    /\ \A w1, w2 \in Workers : w1 # w2 => Locked(w1) \cap Locked(w2) = {}
    /\ (seeded <= batchLimit /\ \A w \in Workers : Finished(w))
         => \A i \in 1..seeded :
                /\ bayes_evidence[i].processed
                /\ commits[i] = 1
                /\ fusedIn[i] <= 1

\* Both workers hold claimed rows at the same time.
C1_Witness == \A w \in Workers : Locked(w) # {}

\* Both workers have finished on a seeded queue of two rows that fits one batch.
C1_SeededDone ==
    /\ seeded = 2
    /\ batchLimit = 2
    /\ \A w \in Workers : Finished(w)

\* C2: a row's processed flag is set by at most one commit and never returns
\* to false, and the row is an input of at most one committed fusion.
C2_ProcessedOnce ==
    /\ [](\A i \in 1..Len(bayes_evidence) :
            /\ commits[i] <= 1
            /\ fusedIn[i] <= 1
            /\ bayes_evidence[i].processed <=> commits[i] = 1)
    /\ [][\A i \in 1..Len(bayes_evidence) :
            bayes_evidence[i].processed => bayes_evidence'[i].processed]_vars

\* A row was fused and marked by a commit, and a later run holds another row.
C2_Witness ==
    \E i \in 1..Len(bayes_evidence), w \in Workers :
        /\ commits[i] = 1
        /\ fusedIn[i] = 1
        /\ Locked(w) # {}

\* Keys of the upsert statements worker w has issued, in order.
UpsertKeys(w) == [j \in 1..Len(upserts[w]) |-> upserts[w][j].key]

NoDuplicates(s) == \A a, b \in 1..Len(s) : a # b => s[a] # s[b]

\* This step is worker w's conn.commit().
Committing(w) == pc[w] = "commit" /\ exit'[w] = "committed"

\* This step kills worker w's process.
Crashing(w) == pc[w] # "idle" /\ exit'[w] \in {"killed", "rolledback"}

AllProcessed ==
    \A i \in 1..Len(bayes_evidence) : bayes_evidence[i].processed

\* C3: a cycle in which no group failed commits exactly one upsert for each
\* distinct (entity_type, entity_id) among the rows it claimed, none for any
\* other entity, and after its commit every claimed row is processed.
C3_OneUpsertPerEntity ==
    [][\A w \in Workers :
          (Committing(w) /\ failed[w] = {}) =>
              /\ NoDuplicates(UpsertKeys(w))
              /\ Range(UpsertKeys(w)) = {r.key : r \in Range(rows[w])}
              /\ \A r \in Range(rows[w]) : bayes_evidence'[r.id].processed]_vars

\* One commit has processed two rows of the same entity into one PriorRecord.
C3_Witness ==
    /\ Len(bayes_evidence) = 2
    /\ bayes_evidence[1].key = bayes_evidence[2].key
    /\ AllProcessed
    /\ now = 1
    /\ Cardinality(bayes_priors) = 1
    /\ \E w \in Workers : exit[w] = "committed"

\* C4: when every evidence row is processed, a run of the worker claims no
\* row, fuses and upserts nothing, and leaves every PriorRecord (updated_at
\* included) and every evidence row as it was.
C4_SecondRunNoOp ==
    [][\A w \in Workers :
          (pc[w] = "select" /\ AllProcessed /\ pc'[w] # "select" /\ ~Crashing(w)) =>
              /\ pc'[w] = "idle"
              /\ exit'[w] = "empty"
              /\ rows'[w] = <<>>
              /\ upserts'[w] = <<>>
              /\ bayes_priors' = bayes_priors
              /\ bayes_evidence' = bayes_evidence]_vars

\* Worker w, alone, has processed the whole queue and then run again.
C4_Witness ==
    \E w \in Workers :
        /\ Len(bayes_evidence) > 0
        /\ AllProcessed
        /\ pc[w] = "idle" /\ exit[w] = "empty"
        /\ \A o \in Workers \ {w} : pc[o] = "idle" /\ exit[o] = "none"

\* C5: bayes_priors never holds two records with the same (entity_type,
\* entity_id), and a record once there keeps its row and its key: a later
\* upsert of the entity changes it in place.
C5_OnePriorPerEntity ==
    /\ [](\A p, q \in bayes_priors : (p.key = q.key \/ p.rid = q.rid) => p = q)
    /\ [][\A p \in bayes_priors :
            \E q \in bayes_priors' : q.rid = p.rid /\ q.key = p.key]_vars

\* A worker is about to commit an update of an entity whose PriorRecord another
\* worker committed after this worker's transaction began.
C5_Witness ==
    \E w \in Workers :
        /\ pc[w] = "commit"
        /\ tstart[w] < now
        /\ \E u \in Range(upserts[w]) :
               u.conflict /\ \E p \in bayes_priors : p.key = u.key

\* C6: a fusion that raises leaves the run in its loop with its transaction,
\* its rows and its earlier upserts untouched; no exception leaves run_batch
\* because of it; and the commit carries the upsert of every group that did
\* not fail and of no group that failed.
C6_FusionFailureIsolated ==
    /\ [](\A w \in Workers :
            pc[w] = "raising" => exc[w] = "connect" \/ txn[w] = "aborted")
    /\ [][\A w \in Workers :
            /\ (pc[w] = "fuse" /\ failed'[w] # failed[w]
                 /\ failed'[w] = failed[w] \cup {CurrentKey(w)}) =>
                   /\ pc'[w] \in {"fuse", "mark"}
                   /\ txn'[w] = txn[w]
                   /\ rows'[w] = rows[w]
                   /\ upserts'[w] = upserts[w]
            /\ Committing(w) =>
                   Range(UpsertKeys(w)) =
                       {r.key : r \in Range(rows[w])} \ failed[w]]_vars

\* A run is at its commit with one group failed and another group upserted.
C6_Witness ==
    \E w \in Workers :
        pc[w] = "commit" /\ failed[w] # {} /\ upserts[w] # <<>>

\* C7: the commit marks the rows of a failed group processed like the others,
\* without their having been fused; a row marked that way is never fused
\* later; and no processed row is ever held claimed.
C7_FailedRowsMarked ==
    /\ [](\A w \in Workers : \A i \in Locked(w) : ~bayes_evidence[i].processed)
    /\ [][/\ \A w \in Workers :
               Committing(w) =>
                   \A r \in Range(rows[w]) :
                       r.key \in failed[w] =>
                           /\ bayes_evidence'[r.id].processed
                           /\ fusedIn'[r.id] = 0
           /\ \A i \in 1..Len(bayes_evidence) :
                  (bayes_evidence[i].processed /\ fusedIn[i] = 0) =>
                      fusedIn'[i] = 0]_vars

\* A row is processed although no committed fusion had it as an input.
C7_Witness ==
    \E i \in 1..Len(bayes_evidence) :
        bayes_evidence[i].processed /\ commits[i] = 1 /\ fusedIn[i] = 0

\* C8: the tables change only in a commit step, which makes all of the
\* transaction's upserts and processed flags visible together; a kill before
\* the commit changes neither table and leaves the rows the worker held
\* claimable by any worker.
C8_CrashSafe ==
    [][/\ (\/ bayes_priors' # bayes_priors
           \/ \E i \in 1..Len(bayes_evidence) :
                  bayes_evidence'[i] # bayes_evidence[i]) =>
              \E w \in Workers :
                  /\ Committing(w)
                  /\ \A i \in marking[w] : bayes_evidence'[i].processed
                  /\ \A u \in Range(upserts[w]) :
                         \E p \in bayes_priors' :
                             /\ p.key = u.key
                             /\ p.mu = u.mu
                             /\ p.sigma = u.sigma
                             /\ p.updated_at = u.updated_at
       /\ \A w \in Workers :
              Crashing(w) =>
                  /\ bayes_evidence' = bayes_evidence
                  /\ bayes_priors' = bayes_priors
                  /\ \A i \in Locked(w) :
                         \A o \in Workers : i \in Claimable(o)']_vars

\* A worker was killed with its transaction open, nothing of it is visible,
\* and the other worker now holds the queue's only row.
C8_Witness ==
    \E w, o \in Workers :
        /\ exit[w] = "rolledback"
        /\ Len(bayes_evidence) = 1
        /\ bayes_priors = {}
        /\ Locked(o) = {1}

\* C9 as claimed: a failed connection ends the worker's process.
C9_ConnectFailureFatal ==
    \A w \in Workers :
        (exc[w] = "connect" /\ pc[w] = "idle") => exit[w] \in {"fatal", "killed"}

\* C9, amended: run_batch connects once and never again; a failed connection
\* leaves run_batch as an exception with no transaction, row or write behind
\* it; the script's process ends with it, while the trigger's thread logs it
\* and ends; neither table changes in the failing run's steps.
C9_ConnectFailurePropagates ==
    /\ [](\A w \in Workers :
            /\ attempts[w] <= 1
            /\ exc[w] = "connect" =>
                  /\ txn[w] = "none"
                  /\ rows[w] = <<>> /\ upserts[w] = <<>> /\ marking[w] = {}
                  /\ pc[w] \in {"raising", "idle"}
                  /\ pc[w] = "idle" =>
                        exit[w] \in {IF Launcher[w] = "main" THEN "fatal"
                                     ELSE "logged", "killed"})
    /\ [][\A w \in Workers :
            (\/ pc[w] = "connect" /\ pc'[w] = "raising"
             \/ pc[w] = "raising" /\ exc[w] = "connect" /\ pc'[w] = "idle") =>
                UNCHANGED <<bayes_evidence, bayes_priors>>]_vars

\* The trigger's thread has caught and logged a failed connection.
C9_Witness ==
    \E w \in Workers : exit[w] = "logged" /\ exc[w] = "connect"

\* C10 as claimed: no hit returned by find_corroborations, on the engine path
\* or on the wrapper's fallback path, has the id of the target article.
C10_NoSelfCorroboration ==
    (m_pc = "returned" /\ article.id # <<>>) =>
        \A i \in 1..Len(results) : results[i].id # article.id

\* C10 on the engine path alone: the prefilter drops every pool item with the
\* target's id, so no hit of the engine has it.
C10_EnginePathExcludesSelf ==
    (m_pc = "returned" /\ path = "engine" /\ article.id # <<>>) =>
        \A i \in 1..Len(results) : results[i].id # article.id

\* The engine has returned hits for a target whose pool held the target.
C10_EngineWitness ==
    /\ m_pc = "returned" /\ path = "engine"
    /\ results # <<>>
    /\ article.id = <<0>>
    /\ \E i \in 1..Len(recent_articles) : recent_articles[i] = article

\* The wrapper's fallback scan has returned, for a target with id 0, a hit
\* with id 0.
C10_Witness ==
    /\ m_pc = "returned" /\ path = "fallback"
    /\ article.id = <<0>>
    /\ \E i \in 1..Len(results) : results[i].id = <<0>>

\* C11 as claimed: the prefilter returns at most max_candidates candidates,
\* whatever max_candidates >= 1 is configured.
C11_AtMostMaxCandidates ==
    m_pc = "semantic" => Len(candidates) <= max_candidates

\* C11, amended: the prefilter returns at most max(5, max_candidates)
\* candidates, each of them a pool item, so semantic_scores is asked to score
\* no more texts than that.
C11_AtMostFloorOrMaxCandidates ==
    m_pc = "semantic" =>
        /\ Len(candidates) <= (IF max_candidates > 5 THEN max_candidates ELSE 5)
        /\ \A i \in 1..Len(candidates) : candidates[i] \in Range(recent_articles)

\* The budget binds: six pool items other than the target, five candidates.
C11_Witness ==
    /\ m_pc = "semantic"
    /\ Len(recent_articles) = 6
    /\ article.id = <<0>>
    /\ max_candidates = 1
    /\ Len(candidates) = 5

\* Scores at or above the threshold among the candidates the returning code
\* ranked: the engine's totals over the prefiltered candidates, or the
\* fallback scan's scores over the pool items it did not skip.
Qualifying ==
    LET all == IF path = "engine"
               THEN [i \in 1..Len(candidates) |->
                        TotalSimilarity(article, candidates, sem_scores, i)]
               ELSE LET Scanned(c) == ~(Truthy(article.id) /\ c.id = article.id)
                        scanned == SelectSeq(recent_articles, Scanned)
                    IN  [i \in 1..Len(scanned) |->
                            FallbackScore(article, scanned[i])]
        AtLeast(x) == x >= threshold
    IN  SelectSeq(all, AtLeast)

\* C12 as claimed: for every threshold and every top_n >= 0, 0 included, the
\* call returns at most top_n hits, each with a score >= threshold, and they
\* are the top_n highest of the qualifying candidates: as many as qualify up
\* to top_n, the i-th of them no lower than the i-th highest qualifying score.
C12_TopNOfQualifying ==
    m_pc = "returned" =>
        /\ Len(results) <= top_n
        /\ \A i \in 1..Len(results) : results[i].similarity >= threshold
        /\ Len(results) =
               (IF Len(Qualifying) < top_n THEN Len(Qualifying) ELSE top_n)
        /\ \A i \in 1..Len(results) :
               /\ results[i].similarity \in Range(Qualifying)
               /\ Cardinality({j \in 1..Len(Qualifying) :
                       Qualifying[j] > results[i].similarity}) < i

\* C12 for every top_n but 0: the same bound, threshold and ranking.
C12_TopNOfQualifyingPositive ==
    (m_pc = "returned" /\ top_n > 0) =>
        /\ Len(results) <= top_n
        /\ \A i \in 1..Len(results) : results[i].similarity >= threshold
        /\ Len(results) =
               (IF Len(Qualifying) < top_n THEN Len(Qualifying) ELSE top_n)
        /\ \A i \in 1..Len(results) :
               /\ results[i].similarity \in Range(Qualifying)
               /\ Cardinality({j \in 1..Len(Qualifying) :
                       Qualifying[j] > results[i].similarity}) < i

\* The engine was called with top_n = 0 and has returned hits.
C12_Witness ==
    /\ m_pc = "returned" /\ path = "engine"
    /\ top_n = 0
    /\ results # <<>>

\* The hits of the engine's scoring loop before the sort, in the order of the
\* prefilter's output.
UnsortedHits ==
    LET Keep(i) == TotalSimilarity(article, candidates, sem_scores, i) >= threshold
        idx == SelectSeq([i \in 1..Len(candidates) |-> i], Keep)
    IN  [k \in 1..Len(idx) |->
            Hit(candidates[idx[k]],
                TotalSimilarity(article, candidates, sem_scores, idx[k]))]

\* C13: the returned list is in descending order of similarity, and on the
\* engine path hits of equal similarity are in the order their candidates had
\* in the prefilter's output: the returned hits are distinct entries of the
\* unsorted hit list, and of two with equal similarity the one returned first
\* comes first in that list.
C13_SortedStable ==
    m_pc = "returned" =>
        /\ \A i, j \in 1..Len(results) :
               i < j => results[i].similarity >= results[j].similarity
        /\ path = "engine" =>
               \E f \in [1..Len(results) -> 1..Len(UnsortedHits)] :
                   /\ \A i \in 1..Len(results) : results[i] = UnsortedHits[f[i]]
                   /\ \A i, j \in 1..Len(results) :
                          i < j =>
                              /\ f[i] # f[j]
                              /\ results[i].similarity = results[j].similarity
                                    => f[i] < f[j]

\* The engine has returned two different hits of equal similarity.
C13_Witness ==
    /\ m_pc = "returned" /\ path = "engine"
    /\ Len(results) = 2
    /\ results[1].similarity = results[2].similarity
    /\ results[1].id # results[2].id

\* C14: whatever libraries are importable and whichever of the model's
\* constructor, encode, the vectorizer's constructor and fit_transform raise, a
\* call of semantic_scores that has ended has not raised and has returned
\* exactly one score per candidate text, none for the empty list.
C14_NeverRaisesOnePerCandidate ==
    \A t \in Threads :
        req[t].pc = "returned" =>
            /\ ~req[t].raised
            /\ Len(req[t].ret) = Len(candidates_texts)

\* A call has ended after encode raised in it, with the scores of two
\* candidate texts.
C14_Witness ==
    \E t \in Threads :
        /\ req[t].pc = "returned"
        /\ req[t].sent_model # 0 /\ CosineSimilarity
        /\ req[t].by = "fuzzy"
        /\ ~req[t].raised
        /\ Len(candidates_texts) = 2
        /\ Len(req[t].ret) = 2

\* C17: in every interleaving of the request threads that share the engine
\* the embedding model is constructed at most once, and once the engine's
\* field holds a model no step changes it.
C17_ConstructedOnceNeverReplaced ==
    /\ [](loads <= 1)
    /\ [][sentence_model # 0 => sentence_model' = sentence_model]_vars

\* Two threads have each constructed a model, and the engine holds the second.
C17_Witness ==
    /\ loads = 2
    /\ sentence_model = 2
    /\ \A t \in Threads : req[t].pc = "loaded"

\* C15: for every features dictionary whose fields are independently absent,
\* None, a non-numeric string, out of range or valid, the call returns without
\* raising and its confidence is in [0, 1].
C15_NeverRaisesInUnitInterval ==
    ret # <<>> => ~ret.raised /\ ret.confidence >= 0 /\ ret.confidence <= 10000

\* The call has raised on a non-numeric corroboration count while every other
\* field holds a valid number.
C15_Witness ==
    /\ ret # <<>> /\ ret.raised
    /\ args.corroboration_count = Str
    /\ args.source_reliability = Num(10000) /\ args.model_prob = Num(9000)
    /\ args.sentiment_strength = Num(1000) /\ args.novelty_score = Num(1000)
    /\ args.coverage = Num(8000)

\* C20: the high-trust reference vector yields a confidence above 0.7 and the
\* low-trust reference vector one below 0.4.
C20_ReferenceVectorsSeparated ==
    ret # <<>> =>
        /\ args = HighTrust => ~ret.raised /\ ret.confidence > 7000
        /\ args = LowTrust => ~ret.raised /\ ret.confidence < 4000

\* The call on the low-trust vector has returned.
C20_Witness == args = LowTrust /\ ret # <<>> /\ ~ret.raised

\* C16: every similarity of a returned hit is in [0, 1], whichever stage
\* produced the semantic scores and whichever structural sub-scores were
\* present.
C16_SimilarityInUnitInterval ==
    m_pc = "returned" =>
        \A i \in 1..Len(results) :
            results[i].similarity >= 0 /\ results[i].similarity <= 10000

\* The engine has returned a hit of negative similarity after the embedding
\* stage answered.
C16_Witness ==
    /\ m_pc = "returned" /\ path = "engine" /\ stage = "embedding"
    /\ \E i \in 1..Len(results) : results[i].similarity < 0

\* C18 as stated: for every prior and likelihood in [0, 1], the update with
\* weight 0 returns the prior that was passed in, and with weight 1 the Bayes
\* posterior L*P / (L*P + (1-L)*(1-P)) of the values passed in (where that
\* quotient is defined).
C18_WeightZeroPriorWeightOneBayes ==
    ret # <<>> =>
        LET P == args.prior
            L == args.likelihood
            den == L * P + (100 - L) * (100 - P)
        IN  /\ args.evidence_weight = 0 => ret.posterior = P
            /\ args.evidence_weight = 100 /\ den # 0
                  => ret.posterior = RoundDiv(100 * L * P, den)

\* C18, amended: with P and L the prior and the likelihood clamped to
\* [0.01, 0.99], the update with weight 0 returns P, and with weight 1 the
\* Bayes posterior L*P / (L*P + (1-L)*(1-P)).
C18_WeightZeroClampedPriorWeightOneBayes ==
    ret # <<>> =>
        LET P == Clamp(1, 99, args.prior)
            L == Clamp(1, 99, args.likelihood)
        IN  /\ args.evidence_weight = 0 => ret.posterior = P
            /\ args.evidence_weight = 100
                  => ret.posterior =
                       RoundDiv(100 * L * P, L * P + (100 - L) * (100 - P))

\* The update with weight 0 of a prior of 0 has returned 0.01.
C18_Witness ==
    /\ ret # <<>>
    /\ args.evidence_weight = 0 /\ args.prior = 0
    /\ ret.posterior = 1

\* The overlap of the theme sets of a pair in sixths: their Jaccard index, an
\* empty set counting as no overlap.
Overlap(p) ==
    IF p.a.themes = {} \/ p.b.themes = {} THEN 0
    ELSE (6 * Cardinality(p.a.themes \cap p.b.themes))
            \div Cardinality(p.a.themes \cup p.b.themes)

\* The second pair scores strictly more than the first structurally, and no
\* less in total whatever the semantic score.
ScoresIncrease ==
    /\ ret[2] > ret[1]
    /\ \A sem \in SemValues :
           TotalSimilarity(args[2].a, <<args[2].b>>, <<sem>>, 1)
             >= TotalSimilarity(args[1].a, <<args[1].b>>, <<sem>>, 1)

\* C19 as stated: of two pairs of records with the same source and date
\* fields, the pair whose theme sets overlap more has the strictly greater
\* structural similarity, and its total score is not smaller.
C19_OverlapMonotone ==
    Len(ret) = 2 /\ Overlap(args[2]) > Overlap(args[1]) => ScoresIncrease

\* C19, amended: the same, for pairs whose theme sets are all non-empty.
C19_OverlapMonotoneNonEmpty ==
    /\ Len(ret) = 2
    /\ Overlap(args[2]) > Overlap(args[1])
    /\ \A i \in 1..2 : args[i].a.themes # {} /\ args[i].b.themes # {}
    => ScoresIncrease

\* Both pairs have been compared: records of the same source an hour apart,
\* first with disjoint themes, then with one theme of three in common.
C19_Witness ==
    /\ Len(ret) = 2
    /\ args[1].a.source = "s1" /\ args[1].b.source = "s1"
    /\ args[1].a.date = <<24>> /\ args[1].b.date = <<25>>
    /\ args[1].a.themes = {"t1"} /\ args[1].b.themes = {"t2"}
    /\ args[2].a.themes = {"t1", "t2"} /\ args[2].b.themes = {"t2", "t3"}
    /\ ret[2] > ret[1]

\* C21: for every prior strictly between 0 and 1 and every non-empty list of
\* likelihoods in [0, 1], simple_bayesian_fusion returns a posterior in
\* [0, 1], strictly greater than the prior when every likelihood is strictly
\* greater than the prior.
C21_PosteriorInRangeAboveLowerPrior ==
    ret # <<>> =>
        /\ ret.posterior >= 0 /\ ret.posterior <= 1000000
        /\ (\A i \in 1..Len(args.likelihoods) :
                args.likelihoods[i] > args.prior)
              => ret.posterior > 10000 * args.prior

\* The call of the test has returned: prior 0.6, likelihoods 0.7 and 0.8.
C21_Witness ==
    /\ ret # <<>>
    /\ args.prior = 60 /\ args.likelihoods = <<70, 80>>
    /\ ret.posterior > 600000

\* The phase of the worker cycle a position of run_batch belongs to; an
\* exception on its way out of run_batch is in none of the five.
Phase(p) ==
    CASE p = "idle" -> "IDLE"
      [] p \in {"connect", "select"} -> "CLAIMING"
      [] p = "group" -> "GROUPING"
      [] p = "fuse" -> "FUSING"
      [] p \in {"upsert", "mark", "commit"} -> "PERSISTING"
      [] OTHER -> "ABORTING"

\* The step ends w's cycle abnormally or starts to: an exception leaves
\* run_batch, or the process is killed.
Abnormal(w) ==
    \/ Phase(pc'[w]) = "ABORTING"
    \/ pc'[w] = "idle" /\ exit'[w] \in {"fatal", "logged", "killed", "rolledback"}

\* C22 as stated: a worker changes phase only along IDLE, CLAIMING, GROUPING,
\* FUSING, PERSISTING, IDLE: no phase is skipped, no fusion follows a
\* persistence of the same batch, and a cycle comes back to IDLE from
\* PERSISTING only, also when it claimed no row (cycles ended by an exception
\* or a kill set aside).
C22_PhasesInOrder ==
    [][\A w \in Workers :
          Phase(pc'[w]) # Phase(pc[w]) /\ ~Abnormal(w) =>
              <<Phase(pc[w]), Phase(pc'[w])>> \in
                  {<<"IDLE", "CLAIMING">>, <<"CLAIMING", "GROUPING">>,
                   <<"GROUPING", "FUSING">>, <<"FUSING", "PERSISTING">>,
                   <<"PERSISTING", "IDLE">>}]_vars

\* C22, amended: a worker changes phase along IDLE, CLAIMING, GROUPING,
\* FUSING, PERSISTING, IDLE, except that a cycle that claimed no row goes
\* back from CLAIMING to IDLE, and that after the persistence of one group
\* the cycle goes back to FUSING for the next; a cycle that returns normally
\* with rows claimed does so from PERSISTING, by its commit.
C22_PhasesInOrderPerGroup ==
    [][\A w \in Workers :
          Phase(pc'[w]) # Phase(pc[w]) /\ ~Abnormal(w) =>
              \/ <<Phase(pc[w]), Phase(pc'[w])>> \in
                     {<<"IDLE", "CLAIMING">>, <<"CLAIMING", "GROUPING">>,
                      <<"GROUPING", "FUSING">>, <<"FUSING", "PERSISTING">>}
              \/ /\ Phase(pc[w]) = "PERSISTING" /\ pc'[w] = "fuse"
                 /\ gidx'[w] = gidx[w] + 1 /\ gidx'[w] <= Len(groups[w])
              \/ /\ pc[w] = "commit" /\ pc'[w] = "idle"
                 /\ exit'[w] = "committed" /\ rows[w] # <<>>
              \/ /\ pc[w] = "select" /\ pc'[w] = "idle"
                 /\ exit'[w] = "empty" /\ SelectForUpdate(w) = <<>>]_vars

\* A worker is about to fuse its second group after it upserted the first.
C22_Witness ==
    \E w \in Workers :
        pc[w] = "fuse" /\ gidx[w] = 2 /\ Len(upserts[w]) = 1

\* C23: the rows a worker's SELECT returns are at most batchLimit distinct
\* rows, each unprocessed and locked by no other worker when it is claimed,
\* and every row left unclaimed that is unprocessed and unlocked was created
\* after all the claimed ones (rows are numbered in creation order).
C23_ClaimsOldestUnlocked ==
    [][\A w \in Workers :
          pc[w] = "select" /\ pc'[w] = "group" =>
              LET claimed == {rows'[w][j].id : j \in 1..Len(rows'[w])}
                  Free(i) == /\ ~bayes_evidence[i].processed
                             /\ \A o \in Workers \ {w} : i \notin Locked(o)
              IN  /\ Len(rows'[w]) <= batchLimit
                  /\ Cardinality(claimed) = Len(rows'[w])
                  /\ \A j \in 1..Len(rows'[w]) - 1 :
                         rows'[w][j].id < rows'[w][j + 1].id
                  /\ \A i \in claimed : i \in 1..Len(bayes_evidence) /\ Free(i)
                  /\ \A k \in 1..Len(bayes_evidence) :
                         Free(k) /\ k \notin claimed
                           => \A i \in claimed : i < k]_vars

\* With a batch limit of 1, a worker has claimed the second row while the
\* other worker holds the first.
C23_Witness ==
    \E w \in Workers, o \in Workers :
        /\ pc[w] = "group" /\ pc[o] = "group"
        /\ batchLimit = 1
        /\ Locked(o) = {1}
        /\ Locked(w) = {2}

\* The fold of bayesian_update from the neutral prior 0.5 over the rows of rs
\* that belong to key, in creation order (NULL read as 0.5).
FoldOfGroup(rs, key) ==
    LET F[i \in 0..Len(rs)] ==
            IF i = 0 THEN 50
            ELSE LET prev == F[i - 1]
                     r == rs[i]
                 IN  IF r.key # key THEN prev
                     ELSE bayesian_update(
                              prev,
                              IF r.value = <<>> THEN 50 ELSE r.value[1],
                              IF r.confidence = <<>> THEN 50
                              ELSE r.confidence[1]).posterior
    IN  F[Len(rs)]

\* C24: at a worker's commit, the claimed rows are in creation order and the
\* PriorRecord of every group that was fused holds the fold of bayesian_update
\* from 0.5 over that group's claimed rows in that order, whatever rows of
\* other groups lie between them.
C24_PosteriorIsFoldOfGroup ==
    [][\A w \in Workers :
          Committing(w) =>
              /\ \A j \in 1..Len(rows[w]) - 1 : rows[w][j].id < rows[w][j + 1].id
              /\ \A r \in Range(rows[w]) :
                     r.key \notin failed[w] =>
                         \E p \in bayes_priors' :
                             /\ p.key = r.key
                             /\ p.mu = FoldOfGroup(rows[w], r.key)]_vars

\* One batch has processed three rows, the second of another entity than the
\* first and the third, and the first entity's PriorRecord holds the fold of
\* the first and the third row.
C24_Witness ==
    /\ Len(bayes_evidence) = 3
    /\ batchLimit = 3
    /\ now = 1
    /\ AllProcessed
    /\ bayes_evidence[1].key = bayes_evidence[3].key
    /\ bayes_evidence[2].key # bayes_evidence[1].key
    /\ Cardinality(bayes_priors) = 2
    /\ \E p \in bayes_priors :
           /\ p.key = bayes_evidence[1].key
           /\ p.mu = bayesian_update(bayesian_update(50, 70, 80).posterior,
                                     80, 85).posterior

\* How many entries of sequence s equal x.
CountIn(s, x) == Cardinality({i \in 1..Len(s) : s[i] = x})

\* The entries of s that the prefilter puts in the given tier for the target.
OfTier(art, s, tier) ==
    LET In(c) == Tier(art, c) = tier
    IN  SelectSeq(s, In)

\* C25: the prefilter's output is made of same-source pool items in pool
\* order, then items within the time window in pool order, then items of the
\* rest; it takes no pool item more often than the pool holds it and never
\* the target itself; an item of a later tier is there only if every item of
\* each earlier tier is; and every item of the rest that was left out has a
\* title similarity no higher than each one that was taken.
C25_ThreeTierGreedyFill ==
    m_pc = "semantic" =>
        LET same == OfTier(article, candidates, "same_source")
            recent == OfTier(article, candidates, "recent")
            other == OfTier(article, candidates, "other")
            Score(c) == similarity(article.title, c.title)
        IN  /\ candidates = same \o recent \o other
            /\ same = Take(OfTier(article, recent_articles, "same_source"),
                           Len(same))
            /\ recent = Take(OfTier(article, recent_articles, "recent"),
                             Len(recent))
            /\ \A c \in Range(recent_articles) :
                   CountIn(candidates, c) <= CountIn(recent_articles, c)
            /\ recent # <<>> =>
                   same = OfTier(article, recent_articles, "same_source")
            /\ other # <<>> =>
                   /\ same = OfTier(article, recent_articles, "same_source")
                   /\ recent = OfTier(article, recent_articles, "recent")
            /\ \A c \in Range(recent_articles) :
                   /\ Tier(article, c) = "other"
                   /\ CountIn(candidates, c) < CountIn(recent_articles, c)
                   => \A d \in Range(other) : Score(d) >= Score(c)

\* The output holds items of all three tiers, and an item of the rest was
\* left out whose title is less similar than that of one taken after it in
\* the pool.
C25_Witness ==
    /\ m_pc = "semantic"
    /\ OfTier(article, candidates, "same_source") # <<>>
    /\ OfTier(article, candidates, "recent") # <<>>
    /\ \E i, j \in 1..Len(recent_articles) :
           /\ i < j
           /\ Tier(article, recent_articles[i]) = "other"
           /\ Tier(article, recent_articles[j]) = "other"
           /\ recent_articles[i] \notin Range(candidates)
           /\ recent_articles[j] \in Range(candidates)
           /\ similarity(article.title, recent_articles[i].title)
                < similarity(article.title, recent_articles[j].title)

\* C26: a pool item of another source, its date and the target's both
\* present, is in the prefilter's second tier exactly when the two
\* publication times are at most window_days days apart, whether the item
\* is older or newer than the target. The items all having the same title,
\* the candidates are then the items within the window in pool order,
\* followed by the other items in pool order.
C26_WindowIsSymmetric ==
    LET Within(c) == /\ c.date # <<>> /\ article.date # <<>>
                     /\ Abs(article.date[1] - c.date[1]) <= 24 * window_days
        Beyond(c) == ~Within(c)
    IN  m_pc = "semantic" =>
            candidates = SelectSeq(recent_articles, Within)
                           \o SelectSeq(recent_articles, Beyond)

\* The pool holds an item 73 hours newer than the target, then one 73 hours
\* older, all dates with an offset: the older one comes out first, as of the
\* second tier, the newer one after it, as of the third.
C26_Witness ==
    /\ m_pc = "semantic"
    /\ ~article.naive
    /\ recent_articles = <<Dated(<<1>>, "s2", <<169>>, FALSE),
                           Dated(<<1>>, "s2", <<23>>, FALSE)>>
    /\ candidates = <<Dated(<<1>>, "s2", <<23>>, FALSE),
                      Dated(<<1>>, "s2", <<169>>, FALSE)>>

\* A pool item parsed without an offset at the very hour of a target parsed
\* with one is placed after an item that is within the window.
C26_WitnessNaive ==
    /\ m_pc = "semantic"
    /\ ~article.naive
    /\ recent_articles = <<Dated(<<1>>, "s2", <<96>>, TRUE),
                           Dated(<<1>>, "s2", <<97>>, FALSE)>>
    /\ candidates = <<Dated(<<1>>, "s2", <<97>>, FALSE),
                      Dated(<<1>>, "s2", <<96>>, TRUE)>>

\* C27: semantic_scores tries its stages in the order embedding, lexical,
\* fuzzy. A thread comes to the lexical stage only from an embedding stage
\* that was skipped or raised, with nothing answered yet; the fuzzy stage
\* answers only from a lexical stage that was skipped or raised; the answer
\* is written once, whole, by one stage (the cosines of that stage or the
\* fuzzy ratios of every candidate), and a returned call changes no more.
C27_StagesInOrder ==
    [][\A t \in Threads :
          LET r == req[t]
              r2 == req'[t]
              Cosines == [1..Len(candidates_texts) -> SemValues]
          IN  /\ (r2.pc = "stage1" /\ r.pc # "stage1")
                    => r.pc \in {"get_model", "loaded"} /\ r2.by = "none"
              /\ (r2.pc = "get_tfidf" /\ r.pc # "get_tfidf")
                    => r.pc = "stage1" /\ r2.by = "none" /\ r2.ret = <<>>
              /\ (r2.pc = "stage2" /\ r.pc # "stage2")
                    => r.pc \in {"get_tfidf", "built"} /\ r2.by = "none"
              /\ (r2.by # r.by \/ r2.ret # r.ret)
                    => /\ r.by = "none" /\ r.ret = <<>>
                       /\ r2.pc = "returned"
                       /\ \/ /\ r2.by = "embedding"
                             /\ r.pc = "stage1"
                             /\ r.sent_model # 0 /\ CosineSimilarity
                             /\ r2.ret \in Cosines
                          \/ /\ r2.by = "tfidf"
                             /\ r.pc = "stage2"
                             /\ r.tfidf # 0 /\ CosineSimilarity
                             /\ r2.ret \in Cosines
                          \/ /\ r2.by = "fuzzy"
                             /\ r.pc = "stage2"
                             /\ r2.ret = FuzzyScores
              /\ r.pc = "returned" => r2 = r]_vars

\* A call on two candidate texts had a model and a vectorizer, both stages
\* raised, and the fuzzy stage answered for both candidates.
C27_Witness ==
    \E t \in Threads :
        /\ req[t].pc = "returned"
        /\ req[t].by = "fuzzy"
        /\ req[t].sent_model # 0
        /\ req[t].tfidf # 0
        /\ CosineSimilarity
        /\ Len(candidates_texts) = 2
        /\ req[t].ret = FuzzyScores

\* C28: bayes_priors changes only at a worker's commit, and a commit replaces
\* the mu of every entity the cycle upserted by the fold, from 0.5, of the
\* rows of that entity which this cycle claimed: a record stored by an
\* earlier cycle is overwritten in place, its mu is not the fold's starting
\* prior, the records of the other entities stay as they are and each
\* entity keeps one record. So after several cycles on one entity the record
\* is the fold over the rows of the cycle that committed last.
C28_LastCycleOverwrites ==
    [][/\ bayes_priors' # bayes_priors => \E w \in Workers : Committing(w)
       /\ \A w \in Workers :
             Committing(w) =>
                 /\ \A u \in Range(upserts[w]) :
                        \E q \in bayes_priors' :
                            /\ q.key = u.key
                            /\ q.mu = FoldOfGroup(rows[w], u.key)
                 /\ \A p \in bayes_priors :
                        IF p.key \in Range(UpsertKeys(w))
                        THEN \E q \in bayes_priors' :
                                 /\ q.rid = p.rid
                                 /\ q.key = p.key
                                 /\ q.mu = FoldOfGroup(rows[w], p.key)
                        ELSE p \in bayes_priors'
                 /\ \A q1, q2 \in bayes_priors' :
                        q1.key = q2.key => q1 = q2]_vars

\* Two rows of one entity were processed by two cycles, one after the other:
\* the record holds the fold of the second row alone, written by the second
\* cycle, which is neither the fold of both rows nor the fold of the second
\* row from the mu the first cycle stored.
C28_Witness ==
    /\ Len(bayes_evidence) = 2
    /\ bayes_evidence[1].key = bayes_evidence[2].key
    /\ AllProcessed
    /\ now = 2
    /\ \A w \in Workers : pc[w] = "idle"
    /\ \E p \in bayes_priors :
           /\ p.key = bayes_evidence[1].key
           /\ p.updated_at = 1
           /\ p.mu = bayesian_update(50, 75, 70).posterior
           /\ p.mu # bayesian_update(bayesian_update(50, 70, 80).posterior,
                                     75, 70).posterior

\* Two concurrent workers claimed one row each of one entity and the worker
\* holding the older row committed last: the record holds the fold of the
\* older row alone.
C28_WitnessConcurrent ==
    /\ Len(bayes_evidence) = 2
    /\ bayes_evidence[1].key = bayes_evidence[2].key
    /\ AllProcessed
    /\ now = 2
    /\ \A w \in Workers : exit[w] = "committed"
    /\ \E p \in bayes_priors :
           /\ p.key = bayes_evidence[1].key
           /\ p.updated_at = 0
           /\ p.mu = bayesian_update(50, 70, 80).posterior
           /\ p.mu # bayesian_update(50, 75, 70).posterior

\* C29 as stated: the worker being run again and again and every run coming
\* to its commit or to its end, every row of the queue is eventually marked
\* processed.
C29_EveryRowProcessed == <>AllProcessed

\* C29: the worker being run again and again, if from some point on no run
\* is killed and the store refuses no connection and no upsert, every row of
\* the queue is eventually marked processed, the rows a killed run had
\* claimed included: the kill ends the transaction and with it the locks.
C29_EveryRowProcessedUnlessDisrupted ==
    <>[][~Disrupting("w1")]_vars => <>AllProcessed

\* A first run has committed one row of three, the next run claimed the
\* second row and was killed before its commit: the row is unprocessed and
\* no transaction holds it.
C29_Witness ==
    /\ Len(bayes_evidence) = 3
    /\ batchLimit = 1
    /\ bayes_evidence[1].processed
    /\ ~bayes_evidence[2].processed
    /\ now = 1
    /\ pc["w1"] = "idle"
    /\ exit["w1"] = "rolledback"
    /\ \A w \in Workers : Locked(w) = {}

\* C30: a worker's cycle writes nothing but the processed flag of the rows it
\* claimed and the PriorRecords of those rows' entities. In every step no row
\* is deleted and no row's entity, value or confidence changes; a processed
\* flag changes only from false to true, at the commit of the worker that
\* claimed the row; a PriorRecord is changed or created only at the commit of
\* a worker that claimed a row of its entity; and apart from an insertion of
\* evidence nothing else changes the two tables.
C30_OnlyClaimedRowsAndTheirPriors ==
    [][LET ClaimedIds(w) == {r.id : r \in Range(rows[w])}
           ClaimedKeys(w) == {r.key : r \in Range(rows[w])}
       IN  /\ Len(bayes_evidence') >= Len(bayes_evidence)
           /\ \A i \in 1..Len(bayes_evidence) :
                  /\ bayes_evidence'[i].key = bayes_evidence[i].key
                  /\ bayes_evidence'[i].value = bayes_evidence[i].value
                  /\ bayes_evidence'[i].confidence = bayes_evidence[i].confidence
                  /\ bayes_evidence'[i].processed # bayes_evidence[i].processed
                        => /\ bayes_evidence'[i].processed
                           /\ \E w \in Workers :
                                  Committing(w) /\ i \in ClaimedIds(w)
           /\ \A p \in bayes_priors :
                  \/ p \in bayes_priors'
                  \/ \E w \in Workers :
                         Committing(w) /\ p.key \in ClaimedKeys(w)
           /\ \A q \in bayes_priors' :
                  \/ q \in bayes_priors
                  \/ \E w \in Workers :
                         Committing(w) /\ q.key \in ClaimedKeys(w)
           /\ (\E w \in Workers : pc[w] # pc'[w])
                  => Len(bayes_evidence') = Len(bayes_evidence)]_vars

\* Two cycles, one after the other, each processed one row, of two entities:
\* the first entity's record is as the first cycle wrote it, the second
\* cycle having written only the second entity's, and both rows still hold
\* their entity, value and confidence.
C30_Witness ==
    /\ Len(bayes_evidence) = 2
    /\ bayes_evidence[1].key # bayes_evidence[2].key
    /\ AllProcessed
    /\ now = 2
    /\ bayes_evidence[1].value = <<70>> /\ bayes_evidence[1].confidence = <<80>>
    /\ bayes_evidence[2].value = <<75>> /\ bayes_evidence[2].confidence = <<70>>
    /\ \E p, q \in bayes_priors :
           /\ p.key = bayes_evidence[1].key
           /\ p.updated_at = 0
           /\ p.mu = bayesian_update(50, 70, 80).posterior
           /\ q.key = bayes_evidence[2].key
           /\ q.updated_at = 1

====
